---------------------------- MODULE Spec2Model ----------------------------
(***************************************************************************)
(* Mira Assistant (muratturan19/Kisisel_Asistan): the intent classifier,   *)
(* the Turkish temporal extractor and the action dispatcher with its       *)
(* duplicate guard, as state machines.                                     *)
(*                                                                         *)
(* Conventions                                                             *)
(*   - a Python str is a sequence of one-character strings; the Turkish    *)
(*     letters outside ASCII are written "ch" "gh" "ih" "oe" "sh" "ue"     *)
(*     (c-cedilla, soft g, dotless i, o-umlaut, s-cedilla, u-umlaut), each *)
(*     one character of the model;                                         *)
(*   - Optional[T] is a sequence of length 0 (None) or 1 (the value);      *)
(*   - a dict is a function from key strings to values;                    *)
(*   - a datetime is a record [wall, off]: the wall-clock reading in       *)
(*     seconds and the UTC offset in seconds (None for a naive value);     *)
(*     the stored columns hold UTC instants in seconds.                    *)
(***************************************************************************)
EXTENDS Integers, Sequences, FiniteSets, TLC

VARIABLES
    events,     \* table Event: sequence of rows in rowid order
    tasks,      \* table Task: sequence of rows in rowid order
    jobs,       \* ActionDispatcher.scheduler: the pending reminder jobs
    svc_jobs,   \* AssistantService.scheduler: the pending reminder jobs
    now,        \* the wall clock (UTC seconds)
    steps,      \* number of steps taken (bounded by MaxSteps)
    last,       \* the most recent handler call: entry point, payload, result
    procs,      \* in-flight create requests of the concurrent specification
    call,       \* the most recent classifier / extractor call: its inputs
    result      \* ... and what it returned

vars == <<events, tasks, jobs, svc_jobs, now, steps, last, procs, call, result>>
\* what the dispatcher's own operations leave alone
others == <<svc_jobs, procs, call, result>>

-----------------------------------------------------------------------------
(* Optional values and dicts *)

None == <<>>
Some(x) == <<x>>
Truthy(v) == v # <<>>
\* Python's  a or b
Or(a, b) == IF Truthy(a) THEN a ELSE b
EmptyDict == <<>>
\* dict.get(key) with the default None
Get(d, k) == IF k \in DOMAIN d THEN d[k] ELSE None
\* dict.get(key, default)
GetOr(d, k, default) == IF k \in DOMAIN d THEN d[k] ELSE default

Max(a, b) == IF a >= b THEN a ELSE b
Abs(x) == IF x < 0 THEN -x ELSE x
Range(s) == {s[i] : i \in DOMAIN s}

-----------------------------------------------------------------------------
(* Strings *)

UpperLetters ==
    {"A", "B", "C", "D", "E", "F", "G", "H", "I", "J", "K", "L", "M", "N",
     "O", "P", "Q", "R", "S", "T", "U", "V", "W", "X", "Y", "Z",
     "CH", "GH", "OE", "SH", "UE"}
LowerLetters ==
    {"a", "b", "c", "d", "e", "f", "g", "h", "i", "j", "k", "l", "m", "n",
     "o", "p", "q", "r", "s", "t", "u", "v", "w", "x", "y", "z",
     "ch", "gh", "ih", "oe", "sh", "ue"}
Digits == {"0", "1", "2", "3", "4", "5", "6", "7", "8", "9"}

LowerChar(c) ==
    IF c \notin UpperLetters THEN c ELSE
    CASE c = "A" -> "a" [] c = "B" -> "b" [] c = "C" -> "c" [] c = "D" -> "d"
      [] c = "E" -> "e" [] c = "F" -> "f" [] c = "G" -> "g" [] c = "H" -> "h"
      [] c = "I" -> "i" [] c = "J" -> "j" [] c = "K" -> "k" [] c = "L" -> "l"
      [] c = "M" -> "m" [] c = "N" -> "n" [] c = "O" -> "o" [] c = "P" -> "p"
      [] c = "Q" -> "q" [] c = "R" -> "r" [] c = "S" -> "s" [] c = "T" -> "t"
      [] c = "U" -> "u" [] c = "V" -> "v" [] c = "W" -> "w" [] c = "X" -> "x"
      [] c = "Y" -> "y" [] c = "Z" -> "z" [] c = "CH" -> "ch" [] c = "GH" -> "gh"
      [] c = "OE" -> "oe" [] c = "SH" -> "sh" [] c = "UE" -> "ue"
      [] OTHER -> c

\* str.lower() and str.casefold() agree on the alphabet above
Lower(s) == [i \in DOMAIN s |-> LowerChar(s[i])]
Casefold(s) == [i \in DOMAIN s |-> LowerChar(s[i])]

\* the class \s and str.isspace(), over the characters of the model
IsSpace(c) == c \in {" ", "\t"}

RECURSIVE LStrip(_)
LStrip(s) == IF s # <<>> /\ IsSpace(Head(s)) THEN LStrip(Tail(s)) ELSE s
RECURSIVE RStrip(_)
RStrip(s) ==
    IF s # <<>> /\ IsSpace(s[Len(s)]) THEN RStrip(SubSeq(s, 1, Len(s) - 1)) ELSE s
\* str.strip()
Strip(s) == RStrip(LStrip(s))

\* needle in haystack, at position i
MatchAt(s, i, kw) ==
    /\ i + Len(kw) - 1 <= Len(s)
    /\ SubSeq(s, i, i + Len(kw) - 1) = kw
\* Python's  kw in s
Contains(s, kw) == \E i \in 1..(Len(s) - Len(kw) + 1) : MatchAt(s, i, kw)

-----------------------------------------------------------------------------
(* Datetimes and the persistence layer (core/storage.py) *)

\* 3600 seconds: the tolerance of the duplicate guard
HourSeconds == 3600

\* the UTC instant of an aware datetime
Instant(d) == d.wall - d.off

\* _parse_iso: an ISO-8601 text (or None) to an aware datetime; a naive value
\* is taken as UTC, an unparseable text gives None
_parse_iso(value) ==
    IF ~Truthy(value) THEN None
    ELSE LET text == value[1] IN
         IF ~text.valid THEN None
         ELSE Some([wall |-> text.wall,
                    off |-> IF text.off = None THEN 0 ELSE text.off[1]])

\* _utcnow
_utcnow(clock) == [wall |-> clock, off |-> 0]

\* _ensure_utc: Optional[datetime] -> Optional[datetime] in UTC
_ensure_utc(value) ==
    IF value = None THEN None
    ELSE Some([wall |-> Instant(value[1]), off |-> 0])

\* the primary key SQLite gives a new row: one more than the largest rowid
RECURSIVE MaxId(_)
MaxId(rows) == IF rows = <<>> THEN 0 ELSE Max(Head(rows).id, MaxId(Tail(rows)))
NextRowId(rows) == MaxId(rows) + 1

\* add_event: the start is stored in UTC (the current instant when absent),
\* the end in UTC when there is one, and the row gets its id; the result is
\* the table and the refreshed row
add_event(rows, clock, event) ==
    LET end_dt == _ensure_utc(event.end_dt)
        row == [id |-> NextRowId(rows),
                title |-> event.title,
                start_dt |-> Some(Instant(Or(_ensure_utc(event.start_dt),
                                             Some(_utcnow(clock)))[1])),
                end_dt |-> IF end_dt = None THEN None ELSE Some(Instant(end_dt[1])),
                remind_policy |-> event.remind_policy]
    IN [rows |-> Append(rows, row), row |-> row]

\* session.get(Event, event_id) / session.get(Task, task_id)
RowIndex(rows, id) ==
    IF \E i \in DOMAIN rows : rows[i].id = id
    THEN Some(CHOOSE i \in DOMAIN rows : rows[i].id = id)
    ELSE None

\* the table without its row number `at`
Without(rows, at) == SubSeq(rows, 1, at - 1) \o SubSeq(rows, at + 1, Len(rows))

\* delete_event: FALSE when there is no such event
delete_event(rows, event_id) ==
    LET at == RowIndex(rows, event_id) IN
    IF at = None THEN [rows |-> rows, deleted |-> FALSE]
    ELSE [rows |-> Without(rows, at[1]), deleted |-> TRUE]

\* upsert_task, for a task that has no id yet
upsert_task(rows, task) ==
    LET due == _ensure_utc(task.due_dt)
        row == [id |-> NextRowId(rows),
                title |-> task.title,
                status |-> "todo",
                due_dt |-> IF due = None THEN None ELSE Some(Instant(due[1]))]
    IN [rows |-> Append(rows, row), row |-> row]

\* complete_task: marks the task DONE; None when there is no such task
complete_task(rows, task_id) ==
    LET at == RowIndex(rows, task_id) IN
    IF at = None THEN [rows |-> rows, task |-> None]
    ELSE [rows |-> [rows EXCEPT ![at[1]].status = "done"],
          task |-> Some([rows[at[1]] EXCEPT !.status = "done"])]

\* ORDER BY due_dt IS NULL, due_dt (ties in rowid order)
TaskBefore(a, b) ==
    \/ a.due_dt # None /\ b.due_dt = None
    \/ a.due_dt # None /\ b.due_dt # None /\ a.due_dt[1] < b.due_dt[1]
    \/ (a.due_dt = b.due_dt) /\ a.id < b.id
RECURSIVE InsertTask(_, _)
InsertTask(sorted, t) ==
    IF sorted = <<>> THEN <<t>>
    ELSE IF TaskBefore(t, Head(sorted)) THEN <<t>> \o sorted
         ELSE <<Head(sorted)>> \o InsertTask(Tail(sorted), t)
RECURSIVE SortTasks(_)
SortTasks(rows) ==
    IF rows = <<>> THEN <<>>
    ELSE InsertTask(SortTasks(SubSeq(rows, 1, Len(rows) - 1)), rows[Len(rows)])

\* list_tasks
IsOpen(t) == t.status # "done"
\* list_tasks without the status filter
list_tasks_all(rows, include_completed) ==
    SortTasks(rows)
list_tasks(rows, include_completed) ==
    SortTasks(IF include_completed THEN rows ELSE SelectSeq(rows, IsOpen))

-----------------------------------------------------------------------------
(* The reminder scheduler (core/scheduler.py) *)

\* config.DEFAULT_REMINDERS, minutes before the start
DEFAULT_REMINDERS == <<1440, 60, 10>>
MinuteSeconds == 60

\* a reminder policy is None, a dict or an iterable of minutes
DictPolicy(d) == Some([kind |-> "dict", dict |-> d, items |-> <<>>])
ListPolicy(items) == Some([kind |-> "list", dict |-> EmptyDict, items |-> items])

\* the job id  f"event-{event.id}-reminder-{minutes}"
JobId(event_id, minutes) == [event_id |-> event_id, minutes |-> minutes]

\* add_job without replace_existing: a job with the same id stays pending
add_job_keep_both(pending, job) ==
    pending \cup {job}
\* add_job(..., id=job_id, replace_existing=True)
add_job(pending, job) == {j \in pending : j.id # job.id} \cup {job}

\* the loop with a reminder that is due at the current instant scheduled too
\* (remind_at < now_local)
RECURSIVE schedule_loop_due_now(_, _, _, _, _)
schedule_loop_due_now(pending, clock, event, minutes_list, job_ids) ==
    IF minutes_list = <<>> THEN [jobs |-> pending, job_ids |-> job_ids]
    ELSE LET minutes == Head(minutes_list)
             remind_at == event.start_dt[1] - minutes * MinuteSeconds
         IN IF remind_at < clock
            THEN schedule_loop_due_now(pending, clock, event, Tail(minutes_list),
                                       job_ids)
            ELSE schedule_loop_due_now(
                     {j \in pending : j.id # JobId(event.id, minutes)}
                         \cup {[id |-> JobId(event.id, minutes), run_at |-> remind_at]},
                     clock, event, Tail(minutes_list),
                     Append(job_ids, JobId(event.id, minutes)))

\* the loop of schedule_event_reminders over the policy's minutes: a job for
\* every offset whose instant lies after the current time
RECURSIVE schedule_loop(_, _, _, _, _)
schedule_loop(pending, clock, event, minutes_list, job_ids) ==
    IF minutes_list = <<>> THEN [jobs |-> pending, job_ids |-> job_ids]
    ELSE LET minutes == Head(minutes_list)
             remind_at == event.start_dt[1] - minutes * MinuteSeconds
         IN IF remind_at <= clock
            THEN schedule_loop(pending, clock, event, Tail(minutes_list), job_ids)
            ELSE schedule_loop(
                     add_job(pending, [id |-> JobId(event.id, minutes),
                                       run_at |-> remind_at]),
                     clock, event, Tail(minutes_list),
                     Append(job_ids, JobId(event.id, minutes)))

\* ReminderScheduler.schedule_event_reminders
schedule_event_reminders(pending, clock, event, reminder_policy) ==
    IF event.start_dt = None THEN [jobs |-> pending, job_ids |-> <<>>]
    ELSE LET policy_minutes ==
                 IF reminder_policy = None THEN DEFAULT_REMINDERS
                 ELSE IF reminder_policy[1].kind = "dict"
                      THEN GetOr(reminder_policy[1].dict, "minutes_before",
                                 DEFAULT_REMINDERS)
                      ELSE reminder_policy[1].items
         IN schedule_loop(pending, clock, event, policy_minutes, <<>>)

-----------------------------------------------------------------------------
(* The advisor (core/advisor.py) *)

\* the warning text names the title and the start of the other event
Conflict(event) == [title |-> event.title, start_dt |-> event.start_dt]

\* detect_conflicts with the events that have no end left out
\* (Event.end_dt > start alone: NULL compares as no match)
detect_conflicts_ended_only(rows, candidate) ==
    IF candidate.start_dt = None THEN <<>>
    ELSE LET start == candidate.start_dt[1]
             end == Or(candidate.end_dt, Some(candidate.start_dt[1] + HourSeconds))[1]
             Selected(e) ==
                 /\ e.start_dt # None
                 /\ e.start_dt[1] < end
                 /\ e.end_dt # None
                 /\ e.end_dt[1] > start
                 /\ e.id # candidate.id
             selected == SelectSeq(rows, Selected)
         IN [i \in DOMAIN selected |-> Conflict(selected[i])]

\* detect_conflicts: a warning for every stored event, other than the
\* candidate, that starts before the candidate's end and has no end or ends
\* after the candidate's start
detect_conflicts(rows, candidate) ==
    IF candidate.start_dt = None THEN <<>>
    ELSE LET start == candidate.start_dt[1]
             end == Or(candidate.end_dt, Some(candidate.start_dt[1] + HourSeconds))[1]
             Selected(e) ==
                 /\ e.start_dt # None
                 /\ e.start_dt[1] < end
                 /\ e.end_dt = None \/ e.end_dt[1] > start
                 /\ e.id # candidate.id
             selected == SelectSeq(rows, Selected)
         IN [i \in DOMAIN selected |-> Conflict(selected[i])]

-----------------------------------------------------------------------------
(* The action dispatcher (core/actions.py) *)

DefaultEventTitle == <<"E", "t", "k", "i", "n", "l", "i", "k">>
DefaultTaskTitle == <<"G", "oe", "r", "e", "v">>

\* what a handler returns, in one shape for all handlers
Result(id, duplicate, job_ids, raised) ==
    [id |-> id, duplicate |-> duplicate, jobs |-> job_ids, raised |-> raised,
     completed |-> FALSE, updated |-> FALSE, deleted |-> FALSE, warnings |-> <<>>]

\* select(Event).where(start_dt >= window_start, start_dt <= window_end)
InWindow(rows, window_start, window_end) ==
    LET Inside(e) == e.start_dt[1] >= window_start /\ e.start_dt[1] <= window_end
    IN SelectSeq(rows, Inside)

\* event_is_duplicate with the stored title compared as written (no casefold)
event_is_duplicate_raw_title(existing, normalized_key, start) ==
    /\ Strip(existing.title) = normalized_key
    /\ \/ start = None /\ existing.start_dt = None
       \/ /\ start # None
          /\ existing.start_dt # None
          /\ Abs(existing.start_dt[1] - Instant(start[1])) < HourSeconds

\* the test that handle_add_event applies to one existing row
event_is_duplicate(existing, normalized_key, start) ==
    /\ Casefold(Strip(existing.title)) = normalized_key
    /\ \/ start = None /\ existing.start_dt = None
       \/ /\ start # None
          /\ existing.start_dt # None
          /\ Abs(existing.start_dt[1] - Instant(start[1])) < HourSeconds

\* the loop over existing_events: the first row that passes the test
RECURSIVE first_duplicate_event(_, _, _)
first_duplicate_event(existing_events, normalized_key, start) ==
    IF existing_events = <<>> THEN None
    ELSE IF event_is_duplicate(Head(existing_events), normalized_key, start)
         THEN Some(Head(existing_events))
         ELSE first_duplicate_event(Tail(existing_events), normalized_key, start)

\* handle_add_event, lines 80-127: payload aliases, normalisation and the
\* duplicate lookup; [title, start, found]
event_guard(rows, payload) ==
    LET start_value == Or(Or(Or(Get(payload, "start"), Get(payload, "date_time")),
                             Get(payload, "start_dt")), Get(payload, "datetime"))
        title == Or(Or(Get(payload, "title"), Get(payload, "event")),
                    Get(payload, "name"))
        start == _parse_iso(start_value)
        normalized_title == Or(Strip(Or(title, DefaultEventTitle)), DefaultEventTitle)
        normalized_key == Casefold(normalized_title)
        existing_events ==
            IF start # None
            THEN InWindow(rows, Instant(start[1]) - HourSeconds,
                          Instant(start[1]) + HourSeconds)
            ELSE rows
    IN [title |-> normalized_title,
        start |-> start,
        found |-> first_duplicate_event(existing_events, normalized_key, start)]

\* handle_add_event, lines 129-151: insert the row and schedule its reminders
event_insert(rows, pending, clock, payload, guard) ==
    LET end_value == Or(Or(Get(payload, "end"), Get(payload, "end_dt")),
                        Get(payload, "end_time"))
        start_dt == Or(guard.start, Some(_utcnow(clock)))
        added == add_event(rows, clock,
                           [title |-> guard.title, start_dt |-> start_dt,
                            end_dt |-> _parse_iso(end_value),
                            remind_policy |-> Get(payload, "remind_policy")])
        warnings == detect_conflicts(added.rows, added.row)
        scheduled == schedule_event_reminders(pending, clock, added.row,
                                              added.row.remind_policy)
    IN [events |-> added.rows,
        jobs |-> scheduled.jobs,
        result |-> [Result(added.row.id, FALSE, scheduled.job_ids, FALSE)
                        EXCEPT !.warnings = warnings]]

\* ActionDispatcher.handle_add_event
ActionDispatcher_handle_add_event(rows, pending, clock, payload) ==
    LET guard == event_guard(rows, payload) IN
    IF guard.found # None
    THEN [events |-> rows, jobs |-> pending,
          result |-> Result(guard.found[1].id, TRUE, <<>>, FALSE)]
    ELSE event_insert(rows, pending, clock, payload, guard)

\* task_is_duplicate with a tolerance that includes exactly one hour
task_is_duplicate_inclusive(existing, normalized_title, due_dt) ==
    /\ Casefold(Strip(existing.title)) = normalized_title
    /\ \/ /\ due_dt # None
          /\ existing.due_dt # None
          /\ Abs(Instant(due_dt[1]) - existing.due_dt[1]) <= HourSeconds
       \/ due_dt = None /\ existing.due_dt = None

\* the test that handle_add_task applies to one open task
task_is_duplicate(existing, normalized_title, due_dt) ==
    /\ Casefold(Strip(existing.title)) = normalized_title
    /\ \/ /\ due_dt # None
          /\ existing.due_dt # None
          /\ Abs(Instant(due_dt[1]) - existing.due_dt[1]) < HourSeconds
       \/ due_dt = None /\ existing.due_dt = None

RECURSIVE first_duplicate_task(_, _, _)
first_duplicate_task(existing_tasks, normalized_title, due_dt) ==
    IF existing_tasks = <<>> THEN None
    ELSE IF task_is_duplicate(Head(existing_tasks), normalized_title, due_dt)
         THEN Some(Head(existing_tasks))
         ELSE first_duplicate_task(Tail(existing_tasks), normalized_title, due_dt)

\* handle_add_task, lines 252-277: [title, due, found]
task_guard(rows, payload) ==
    LET raw_title == Or(GetOr(payload, "title", DefaultTaskTitle), <<>>)
        title == Or(Strip(raw_title), DefaultTaskTitle)
        normalized_title == Casefold(title)
        due_dt == _parse_iso(Get(payload, "due"))
        existing_tasks == list_tasks(rows, FALSE)
    IN [title |-> title,
        due |-> due_dt,
        found |-> first_duplicate_task(existing_tasks, normalized_title, due_dt)]

\* handle_add_task, lines 279-289
task_insert(rows, guard) ==
    LET saved == upsert_task(rows, [title |-> Or(guard.title, DefaultTaskTitle),
                                    due_dt |-> guard.due])
    IN [tasks |-> saved.rows, result |-> Result(saved.row.id, FALSE, <<>>, FALSE)]

\* ActionDispatcher.handle_add_task
ActionDispatcher_handle_add_task(rows, payload) ==
    LET guard == task_guard(rows, payload) IN
    IF guard.found # None
    THEN [tasks |-> rows, result |-> Result(guard.found[1].id, TRUE, <<>>, FALSE)]
    ELSE task_insert(rows, guard)

\* ActionDispatcher.handle_complete_task: completed = the task was found
ActionDispatcher_handle_complete_task(rows, payload) ==
    LET task_id == GetOr(payload, "task_id", 0)
        done == complete_task(rows, task_id)
    IN [tasks |-> done.rows,
        result |-> [Result(task_id, FALSE, <<>>, FALSE)
                        EXCEPT !.completed = done.task # None]]

-----------------------------------------------------------------------------
(* The CLI orchestrator (app.py) *)

\* AssistantService.handle_add_event: a missing or unparseable start raises
\* ValueError, and an end_dt, handed to add_event as the text it is, raises
\* AttributeError in _ensure_utc; otherwise the event is inserted and its
\* reminders scheduled
AssistantService_handle_add_event(rows, pending, clock, payload) ==
    LET start_str == Get(payload, "start")
        start_dt == _parse_iso(start_str)
    IN IF ~Truthy(start_str) \/ start_dt = None \/ Get(payload, "end_dt") # None
       THEN [events |-> rows, jobs |-> pending,
             result |-> Result(0, FALSE, <<>>, TRUE)]
       ELSE LET added == add_event(rows, clock,
                             [title |-> GetOr(payload, "title", DefaultEventTitle),
                              start_dt |-> start_dt,
                              end_dt |-> None,
                              remind_policy |-> Get(payload, "remind_policy")])
                warnings == detect_conflicts(added.rows, added.row)
                remind_policy == Get(payload, "remind_policy")
                reminder_minutes ==
                    IF Truthy(remind_policy)
                    THEN LET m == Get(remind_policy[1].dict, "minutes_before")
                         IN IF m = None THEN None ELSE ListPolicy(m)
                    ELSE None
                scheduled == schedule_event_reminders(pending, clock, added.row,
                                                      reminder_minutes)
            IN [events |-> added.rows,
                jobs |-> scheduled.jobs,
                result |-> [Result(added.row.id, FALSE, scheduled.job_ids, FALSE)
                                EXCEPT !.warnings = warnings]]

\* AssistantService.handle_add_task
AssistantService_handle_add_task(rows, payload) ==
    LET due_dt == _parse_iso(Get(payload, "due"))
        saved == upsert_task(rows, [title |-> GetOr(payload, "title", DefaultTaskTitle),
                                    due_dt |-> due_dt])
    IN [tasks |-> saved.rows, result |-> Result(saved.row.id, FALSE, <<>>, FALSE)]

-----------------------------------------------------------------------------
(* Requests *)

\* bound on the number of handler calls and clock ticks of one behaviour
MaxSteps == 3

IsoText(wall, off) == Some([valid |-> TRUE, wall |-> wall, off |-> off])

\* titles as they arrive: absent, and two spellings of one title
TitleValues == {None, <<"a", "b">>, <<" ", "A", "B", " ">>}
\* start / due values as they arrive: absent, 02:00Z, 05:15+03:00 (02:15Z) and
\* a naive 03:00 (taken as UTC)
TimeValues ==
    {None, IsoText(7200, Some(0)), IsoText(18900, Some(10800)), IsoText(10800, None)}

Entry(key, value) == IF value = None THEN EmptyDict ELSE key :> value
EventPayloads == {Entry("title", t) @@ Entry("start", s) : t \in TitleValues, s \in TimeValues}
TaskPayloads == {Entry("title", t) @@ Entry("due", s) : t \in TitleValues, s \in TimeValues}

\* seconds the clock advances in one tick
ClockStep == 900

NoCall ==
    [n |-> 0, entry |-> "none", op |-> "none", payload |-> EmptyDict,
     result |-> Result(0, FALSE, <<>>, FALSE)]
Called(entry, op, payload, res) ==
    [n |-> last.n + 1, entry |-> entry, op |-> op, payload |-> payload, result |-> res]

NoRequest == [text |-> <<>>]
Idle == /\ procs = <<>>
        /\ svc_jobs = {}
        /\ call = NoRequest
        /\ result = None

Init ==
    /\ events = <<>>
    /\ tasks = <<>>
    /\ jobs = {}
    /\ now = 0
    /\ steps = 0
    /\ last = NoCall
    /\ Idle

-----------------------------------------------------------------------------
(* The dispatcher's operations, one call at a time *)

AddEvent ==
    /\ steps < MaxSteps
    /\ \E payload \in EventPayloads :
         LET r == ActionDispatcher_handle_add_event(events, jobs, now, payload) IN
         /\ events' = r.events
         /\ jobs' = r.jobs
         /\ last' = Called("dispatcher", "add_event", payload, r.result)
    /\ steps' = steps + 1
    /\ UNCHANGED <<tasks, now, others>>

AddTask ==
    /\ steps < MaxSteps
    /\ \E payload \in TaskPayloads :
         LET r == ActionDispatcher_handle_add_task(tasks, payload) IN
         /\ tasks' = r.tasks
         /\ last' = Called("dispatcher", "add_task", payload, r.result)
    /\ steps' = steps + 1
    /\ UNCHANGED <<events, jobs, now, others>>

CompleteTask ==
    /\ steps < MaxSteps
    /\ \E task_id \in 0..MaxId(tasks) :
         LET payload == "task_id" :> task_id
             r == ActionDispatcher_handle_complete_task(tasks, payload)
         IN /\ tasks' = r.tasks
            /\ last' = Called("dispatcher", "complete_task", payload, r.result)
    /\ steps' = steps + 1
    /\ UNCHANGED <<events, jobs, now, others>>

\* time passes; the scheduler runs the jobs that fall due and drops them
Tick ==
    /\ steps < MaxSteps
    /\ now' = now + ClockStep
    /\ jobs' = {j \in jobs : j.run_at > now'}
    /\ steps' = steps + 1
    /\ UNCHANGED <<events, tasks, last, others>>

Next == AddEvent \/ AddTask \/ CompleteTask \/ Tick

Spec == Init /\ [][Next]_vars

-----------------------------------------------------------------------------
(* What the claims call a duplicate, stated on its own *)

\* the trimmed, case-folded title a create request carries
RequestKey(payload, default) == Casefold(Strip(Or(Strip(Get(payload, "title")), default)))
\* the instant a create request carries in `key`, or None
RequestInstant(payload, key) ==
    LET d == _parse_iso(Get(payload, key)) IN
    IF d = None THEN None ELSE Some(Instant(d[1]))
\* two optional instants less than one hour apart
Close(a, b) == a # None /\ b # None /\ Abs(a[1] - b[1]) < HourSeconds
\* the matching rule: equal titles, and both times absent or both present and
\* less than one hour apart
IsDuplicateOf(row_title, row_time, key, time) ==
    /\ Casefold(Strip(row_title)) = key
    /\ (row_time = None /\ time = None) \/ Close(row_time, time)

EventMatches(rows, payload) ==
    {i \in DOMAIN rows :
        IsDuplicateOf(rows[i].title, rows[i].start_dt,
                      RequestKey(payload, DefaultEventTitle),
                      RequestInstant(payload, "start"))}
TaskMatches(rows, payload) ==
    {i \in DOMAIN rows :
        IsDuplicateOf(rows[i].title, rows[i].due_dt,
                      RequestKey(payload, DefaultTaskTitle),
                      RequestInstant(payload, "due"))}
OpenTaskMatches(rows, payload) ==
    {i \in TaskMatches(rows, payload) : rows[i].status # "done"}

\* the step is a call of the dispatcher's create handler `op`
DispatcherCall(op) ==
    /\ last'.n = last.n + 1
    /\ last'.entry = "dispatcher"
    /\ last'.op = op
\* ... that follows a call of the same handler with the same normalized title
\* and a start / due less than one hour away
SecondOfTwo(op, key, default) ==
    /\ DispatcherCall(op)
    /\ last.entry = "dispatcher"
    /\ last.op = op
    /\ RequestKey(last.payload, default) = RequestKey(last'.payload, default)
    /\ Close(RequestInstant(last.payload, key), RequestInstant(last'.payload, key))

-----------------------------------------------------------------------------
(* C3: the second of two create calls in sequence *)

NothingCreated == events' = events /\ tasks' = tasks /\ jobs' = jobs

-----------------------------------------------------------------------------
(* C4: the matching rule of the duplicate guard *)

\* the row a create call appended to `rows`
Appended(rows, rows_after) ==
    /\ Len(rows_after) = Len(rows) + 1
    /\ SubSeq(rows_after, 1, Len(rows)) = rows

\* what C4 says of one create call, `matches` being the stored rows that the
\* matching rule makes duplicates of the candidate
GuardDecides(rows, rows_after, matches) ==
    /\ last'.result.duplicate <=> matches # {}
    /\ last'.result.duplicate
         => /\ \E i \in matches : rows[i].id = last'.result.id
            /\ rows_after = rows
    /\ ~last'.result.duplicate
         => /\ Appended(rows, rows_after)
            /\ rows_after[Len(rows_after)].id = last'.result.id

-----------------------------------------------------------------------------
(* Every entry point: the dispatcher and the CLI's AssistantService *)

ServiceAddEvent ==
    /\ steps < MaxSteps
    /\ \E payload \in EventPayloads :
         LET r == AssistantService_handle_add_event(events, svc_jobs, now, payload) IN
         /\ events' = r.events
         /\ svc_jobs' = r.jobs
         /\ last' = Called("service", "add_event", payload, r.result)
    /\ steps' = steps + 1
    /\ UNCHANGED <<tasks, jobs, now, procs, call, result>>

ServiceAddTask ==
    /\ steps < MaxSteps
    /\ \E payload \in TaskPayloads :
         LET r == AssistantService_handle_add_task(tasks, payload) IN
         /\ tasks' = r.tasks
         /\ last' = Called("service", "add_task", payload, r.result)
    /\ steps' = steps + 1
    /\ UNCHANGED <<events, jobs, svc_jobs, now, procs, call, result>>

NextAllEntries ==
    \/ AddEvent \/ AddTask \/ CompleteTask \/ Tick
    \/ ServiceAddEvent \/ ServiceAddTask

SpecAllEntries == Init /\ [][NextAllEntries]_vars

\* the call recorded in `c` created a record
Created(c) == c.n > 0 /\ ~c.result.duplicate /\ ~c.result.raised

\* C5: every handler that creates an event or a task looks for a duplicate
\* before inserting, so through no entry point do two add_event (add_task)
\* calls in sequence with the same title and start (due) times less than one
\* hour apart (15 minutes, say) both create a record.
C5_NoEntryPointCreatesTwice ==
    [][ /\ last'.n = last.n + 1
        /\ last'.op = last.op
        /\ \/ /\ last.op = "add_event"
              /\ RequestKey(last.payload, DefaultEventTitle)
                    = RequestKey(last'.payload, DefaultEventTitle)
              /\ Close(RequestInstant(last.payload, "start"),
                       RequestInstant(last'.payload, "start"))
           \/ /\ last.op = "add_task"
              /\ RequestKey(last.payload, DefaultTaskTitle)
                    = RequestKey(last'.payload, DefaultTaskTitle)
              /\ Close(RequestInstant(last.payload, "due"),
                       RequestInstant(last'.payload, "due"))
        => ~(Created(last) /\ Created(last')) ]_vars

-----------------------------------------------------------------------------
(* Concurrent create requests: each handler reads in one database session and
   inserts in another, and other requests run between the two *)

\* number of requests in flight
NumProcs == 2

NotStarted == [pc |-> "idle"]

InitConcurrent ==
    /\ events = <<>>
    /\ tasks = <<>>
    /\ jobs = {}
    /\ now = 0
    /\ steps = 0
    /\ last = NoCall
    /\ procs = [p \in 1..NumProcs |-> NotStarted]
    /\ svc_jobs = {}
    /\ call = NoRequest
    /\ result = None

\* the request returned from inside the lookup, or goes on to insert
AfterGuard(op, payload, guard) ==
    IF guard.found # None
    THEN [pc |-> "done", op |-> op, payload |-> payload,
          result |-> Result(guard.found[1].id, TRUE, <<>>, FALSE)]
    ELSE [pc |-> "insert", op |-> op, payload |-> payload, guard |-> guard]

\* handle_add_event up to the end of its first session
GuardEvent(p) ==
    /\ procs[p].pc = "idle"
    /\ \E payload \in EventPayloads :
         procs' = [procs EXCEPT ![p] =
                      AfterGuard("add_event", payload, event_guard(events, payload))]
    /\ UNCHANGED <<events, tasks, jobs, svc_jobs, now, steps, last, call, result>>

\* handle_add_event from the construction of the row to its return
InsertEvent(p) ==
    /\ procs[p].pc = "insert"
    /\ procs[p].op = "add_event"
    /\ LET r == event_insert(events, jobs, now, procs[p].payload, procs[p].guard) IN
         /\ events' = r.events
         /\ jobs' = r.jobs
         /\ procs' = [procs EXCEPT ![p] =
                         [pc |-> "done", op |-> "add_event",
                          payload |-> procs[p].payload, result |-> r.result]]
    /\ UNCHANGED <<tasks, svc_jobs, now, steps, last, call, result>>

\* handle_add_task up to the end of its lookup
GuardTask(p) ==
    /\ procs[p].pc = "idle"
    /\ \E payload \in TaskPayloads :
         procs' = [procs EXCEPT ![p] =
                      AfterGuard("add_task", payload, task_guard(tasks, payload))]
    /\ UNCHANGED <<events, tasks, jobs, svc_jobs, now, steps, last, call, result>>

\* handle_add_task from the construction of the row to its return
SaveTask(p) ==
    /\ procs[p].pc = "insert"
    /\ procs[p].op = "add_task"
    /\ LET r == task_insert(tasks, procs[p].guard) IN
         /\ tasks' = r.tasks
         /\ procs' = [procs EXCEPT ![p] =
                         [pc |-> "done", op |-> "add_task",
                          payload |-> procs[p].payload, result |-> r.result]]
    /\ UNCHANGED <<events, jobs, svc_jobs, now, steps, last, call, result>>

NextConcurrent ==
    \E p \in 1..NumProcs :
        GuardEvent(p) \/ InsertEvent(p) \/ GuardTask(p) \/ SaveTask(p)

SpecConcurrent == InitConcurrent /\ [][NextConcurrent]_vars

\* two finished requests of one handler with the same normalized title and
\* start / due less than one hour apart
SameRecordRequested(a, b) ==
    /\ a.pc = "done" /\ b.pc = "done"
    /\ a.op = b.op
    /\ LET default == IF a.op = "add_event" THEN DefaultEventTitle ELSE DefaultTaskTitle
           key == IF a.op = "add_event" THEN "start" ELSE "due"
       IN /\ RequestKey(a.payload, default) = RequestKey(b.payload, default)
          /\ Close(RequestInstant(a.payload, key), RequestInstant(b.payload, key))

\* C2: of two concurrent create requests with the same normalized title and
\* start / due less than one hour apart, in every interleaving exactly one
\* creates a record and the other returns duplicate = true.
C2_ExactlyOneInserts ==
    \A p, q \in 1..NumProcs :
        (p < q /\ SameRecordRequested(procs[p], procs[q]))
            => (procs[p].result.duplicate # procs[q].result.duplicate)

-----------------------------------------------------------------------------
(* More of Python's str and re *)

IsDigit(c) == c \in Digits
IsUpper(c) == c \in UpperLetters
IsLetter(c) == c \in LowerLetters \cup UpperLetters
\* the class \w
IsWordChar(c) == IsLetter(c) \/ IsDigit(c) \/ c = "_"

UpperChar(c) ==
    CASE c = "a" -> "A" [] c = "b" -> "B" [] c = "c" -> "C" [] c = "d" -> "D"
      [] c = "e" -> "E" [] c = "f" -> "F" [] c = "g" -> "G" [] c = "h" -> "H"
      [] c = "i" -> "I" [] c = "j" -> "J" [] c = "k" -> "K" [] c = "l" -> "L"
      [] c = "m" -> "M" [] c = "n" -> "N" [] c = "o" -> "O" [] c = "p" -> "P"
      [] c = "q" -> "Q" [] c = "r" -> "R" [] c = "s" -> "S" [] c = "t" -> "T"
      [] c = "u" -> "U" [] c = "v" -> "V" [] c = "w" -> "W" [] c = "x" -> "X"
      [] c = "y" -> "Y" [] c = "z" -> "Z" [] c = "ch" -> "CH" [] c = "gh" -> "GH"
      [] c = "ih" -> "I" [] c = "oe" -> "OE" [] c = "sh" -> "SH" [] c = "ue" -> "UE"
      [] OTHER -> c

DigitValue(c) ==
    CASE c = "0" -> 0 [] c = "1" -> 1 [] c = "2" -> 2 [] c = "3" -> 3
      [] c = "4" -> 4 [] c = "5" -> 5 [] c = "6" -> 6 [] c = "7" -> 7
      [] c = "8" -> 8 [] c = "9" -> 9
\* int() of a run of digits
RECURSIVE ToInt(_)
ToInt(ds) ==
    IF ds = <<>> THEN 0
    ELSE 10 * ToInt(SubSeq(ds, 1, Len(ds) - 1)) + DigitValue(ds[Len(ds)])

\* the least element of a non-empty set of positions
Least(S) == CHOOSE i \in S : \A j \in S : i <= j
\* s[i:], s[:i) and s[i:j) with 1-based positions
From(s, i) == SubSeq(s, i, Len(s))
Upto(s, i) == SubSeq(s, 1, i - 1)
Slice(s, i, j) == SubSeq(s, i, j - 1)

\* any(keyword in text for keyword in keywords)
_contains_any(text, keywords) == \E keyword \in keywords : Contains(text, keyword)

\* the length of the first word of a string that starts with a non-space
WordLen(s) ==
    IF \E i \in DOMAIN s : IsSpace(s[i])
    THEN Least({i \in DOMAIN s : IsSpace(s[i])}) - 1
    ELSE Len(s)
\* str.split()
RECURSIVE Split(_)
Split(s) ==
    LET t == LStrip(s) IN
    IF t = <<>> THEN <<>>
    ELSE <<SubSeq(t, 1, WordLen(t))>> \o Split(From(t, WordLen(t) + 1))
\* sep.join(words)
RECURSIVE Join(_, _)
Join(words, sep) ==
    IF words = <<>> THEN <<>>
    ELSE IF Len(words) = 1 THEN words[1]
    ELSE words[1] \o sep \o Join(Tail(words), sep)
\* str.capitalize()
Capitalize(word) ==
    IF word = <<>> THEN <<>>
    ELSE <<UpperChar(word[1])>> \o Lower(Tail(word))

\* the position of the first non-space at or after i (Len(s) + 1 if none)
SkipSpaces(s, i) ==
    IF \E j \in i..Len(s) : ~IsSpace(s[j])
    THEN Least({j \in i..Len(s) : ~IsSpace(s[j])})
    ELSE Len(s) + 1
\* the number of characters \d{1,2} takes at i (greedy), 0 if none
DigitRun(s, i) ==
    IF i <= Len(s) /\ IsDigit(s[i])
    THEN IF i + 1 <= Len(s) /\ IsDigit(s[i + 1]) THEN 2 ELSE 1
    ELSE 0
\* \b between positions i - 1 and i
Boundary(s, i) ==
    LET before == i > 1 /\ i - 1 <= Len(s) /\ IsWordChar(s[i - 1])
        after == i >= 1 /\ i <= Len(s) /\ IsWordChar(s[i])
    IN before # after

-----------------------------------------------------------------------------
(* The temporal extractor (core/parser_tr.py) *)

\* _TIME_PATTERN, first alternative  \d{1,2}[:. ]\d{2}  at i: the position
\* after the match, 0 when it does not match there
ClockEnd(s, i) ==
    LET n == DigitRun(s, i) IN
    IF /\ n > 0
       /\ i + n <= Len(s)
       /\ s[i + n] \in {":", ".", " "}
       /\ DigitRun(s, i + n + 1) = 2
    THEN i + n + 3
    ELSE 0      \* giving back a digit cannot help: a digit is no separator

\* (?:da|de|te)\b  at i (case-insensitive): the position after it, or 0
ParticleEnd(s, i) ==
    IF /\ i + 1 <= Len(s)
       /\ Lower(SubSeq(s, i, i + 1)) \in {<<"d", "a">>, <<"d", "e">>, <<"t", "e">>}
       /\ Boundary(s, i + 2)
    THEN i + 2
    ELSE 0

\* second alternative  saat\s+\d{1,2}(?:\s*(?:da|de|te)\b)?
SaatEnd(s, i) ==
    IF /\ i + 4 <= Len(s)
       /\ Lower(SubSeq(s, i, i + 3)) = <<"s", "a", "a", "t">>
       /\ IsSpace(s[i + 4])
       /\ DigitRun(s, SkipSpaces(s, i + 4)) > 0
    THEN LET d == SkipSpaces(s, i + 4)
             after_digits == d + DigitRun(s, d)
             particle == ParticleEnd(s, SkipSpaces(s, after_digits))
         IN IF particle # 0 THEN particle ELSE after_digits
    ELSE 0

\* third alternative  \d{1,2}\s+(?:da|de|te)\b
HourParticleEnd(s, i) ==
    LET n == DigitRun(s, i) IN
    IF n > 0 /\ i + n <= Len(s) /\ IsSpace(s[i + n])
    THEN ParticleEnd(s, SkipSpaces(s, i + n))
    ELSE 0

\* the alternation: the first alternative that matches at `start` decides
\* (the arguments are the ends the three alternatives reach, 0 for no match)
FirstAlternative(start, clock, saat, particle) ==
    IF clock # 0 THEN Some([start |-> start, end |-> clock])
    ELSE IF saat # 0 THEN Some([start |-> start, end |-> saat])
    ELSE IF particle # 0 THEN Some([start |-> start, end |-> particle])
    ELSE None
\* the match of _TIME_PATTERN at i, alternatives in the order written
TimeMatchAt(s, i) ==
    FirstAlternative(i, ClockEnd(s, i), SaatEnd(s, i), HourParticleEnd(s, i))

\* re.search: of the matches at the positions of a text, the leftmost
Leftmost(matches) ==
    IF \E i \in DOMAIN matches : matches[i] # None
    THEN matches[Least({i \in DOMAIN matches : matches[i] # None})]
    ELSE None
\* _TIME_PATTERN.search
_TIME_PATTERN_search(s) == Leftmost([i \in DOMAIN s |-> TimeMatchAt(s, i)])

\* group(1) of the first re.fullmatch alone: "saat H [da]"
hour_match_saat_only(match_text) ==
    IF SaatEnd(match_text, 1) = Len(match_text) + 1
    THEN LET d == SkipSpaces(match_text, 5)
         IN Some(SubSeq(match_text, d, d + DigitRun(match_text, d) - 1))
    ELSE None
\* group(1) of the two re.fullmatch calls on the matched text: the digits of
\* "saat H [da]" or of "H da", None for any other text
hour_match(match_text) ==
    IF SaatEnd(match_text, 1) = Len(match_text) + 1
    THEN LET d == SkipSpaces(match_text, 5)
         IN Some(SubSeq(match_text, d, d + DigitRun(match_text, d) - 1))
    ELSE IF HourParticleEnd(match_text, 1) = Len(match_text) + 1
         THEN Some(SubSeq(match_text, 1, DigitRun(match_text, 1)))
         ELSE None

_PERIOD_HINTS == {<<"a", "k", "sh", "a", "m">>, <<"a", "k", "s", "a", "m">>, <<"a", "k", "sh", "a", "m", "ue", "s", "t", "ue">>, <<"a", "k", "s", "a", "m", "u", "s", "t", "u">>}

LastThree(words) ==
    IF Len(words) <= 3 THEN words ELSE SubSeq(words, Len(words) - 2, Len(words))
\* looks at the last word only
_detect_period_hint_last_word(prefix) ==
    /\ Split(prefix) # <<>>
    /\ Split(prefix)[Len(Split(prefix))] \in _PERIOD_HINTS
\* _detect_period_hint: TRUE for "evening", the only hint there is
_detect_period_hint(prefix) ==
    \E i \in DOMAIN LastThree(Split(prefix)) :
        LastThree(Split(prefix))[i] \in _PERIOD_HINTS

\* _APOSTROPHE_PATTERN.sub(r"\1 \2", text): an apostrophe between a digit and
\* a letter becomes a space
ApostropheSub(text) ==
    [i \in DOMAIN text |->
        IF /\ text[i] = "'"
           /\ i > 1 /\ IsDigit(text[i - 1])
           /\ i < Len(text) /\ IsLetter(text[i + 1])
        THEN " " ELSE text[i]]
\* text.replace("'", " ")
ReplaceApostrophes(text) ==
    [i \in DOMAIN text |-> IF text[i] = "'" THEN " " ELSE text[i]]
\* re.sub(r"\s\s", " ", text): whitespace collapsed pair by pair
RECURSIVE CollapseSpacePairs(_)
CollapseSpacePairs(text) ==
    IF Len(text) < 2 THEN text
    ELSE IF IsSpace(text[1]) /\ IsSpace(text[2])
         THEN <<" ">> \o CollapseSpacePairs(Tail(Tail(text)))
         ELSE <<text[1]>> \o CollapseSpacePairs(Tail(text))
\* re.sub(r"\s+", " ", text): every run of whitespace becomes one space
RECURSIVE CollapseSpaces(_)
CollapseSpaces(text) ==
    IF text = <<>> THEN <<>>
    ELSE IF ~IsSpace(text[1]) THEN <<text[1]>> \o CollapseSpaces(Tail(text))
    ELSE IF Len(text) > 1 /\ IsSpace(text[2]) THEN CollapseSpaces(Tail(text))
    ELSE <<" ">> \o CollapseSpaces(Tail(text))

_normalise_text(text) ==
    Strip(CollapseSpaces(ReplaceApostrophes(ApostropheSub(text))))

\* the text is never searched for a time
_has_explicit_time_unsearched(text) == FALSE
_has_explicit_time(text) == _TIME_PATTERN_search(_normalise_text(text)) # None

_DAY_SUFFIXES ==
    {<<"s", "i">>, <<"s", "ih">>, <<"i", "n", "c", "i">>, <<"ih", "n", "c", "ih">>, <<"u", "n", "c", "u">>, <<"ue", "n", "c", "ue">>, <<"n", "c", "ih">>, <<"n", "c", "i">>}
\* _DAY_SUFFIX_PATTERN at i: \b(\d{1,2})\s*(?:si|...)\b
DaySuffixAt(s, i) ==
    LET n == DigitRun(s, i)
        at == SkipSpaces(s, i + n)
    IN /\ n > 0
       /\ Boundary(s, i)
       /\ \E suffix \in _DAY_SUFFIXES :
            /\ at + Len(suffix) - 1 <= Len(s)
            /\ Lower(SubSeq(s, at, at + Len(suffix) - 1)) = suffix
            /\ Boundary(s, at + Len(suffix))
\* _DAY_SUFFIX_PATTERN.search: int(group(1)) of the leftmost match, or None
_DAY_SUFFIX_PATTERN_search(s) ==
    IF \E i \in DOMAIN s : DaySuffixAt(s, i)
    THEN LET i == Least({j \in DOMAIN s : DaySuffixAt(s, j)})
         IN Some(ToInt(SubSeq(s, i, i + DigitRun(s, i) - 1)))
    ELSE None

_DATE_KEYWORDS ==
    {<<"y", "a", "r", "ih", "n">>, <<"y", "a", "r", "i", "n", "k", "i">>, <<"b", "u", "g", "ue", "n">>, <<"b", "u", "g", "u", "n">>, <<"d", "ue", "n">>, <<"h", "a", "f", "t", "a", "y", "a">>,
     <<"s", "o", "n", "r", "a", "k", "i">>, <<"g", "e", "l", "e", "c", "e", "k">>, <<"oe", "n", "ue", "m", "ue", "z", "d", "e", "k", "i">>, <<"oe", "n", "ue", "m", "ue", "z", "d", "e">>, <<"e", "r", "t", "e", "s", "i">>}
_DAY_NAMES ==
    {<<"p", "a", "z", "a", "r", "t", "e", "s", "i">>, <<"s", "a", "l", "ih">>, <<"s", "a", "l", "i">>, <<"ch", "a", "r", "sh", "a", "m", "b", "a">>, <<"c", "a", "r", "s", "a", "m", "b", "a">>, <<"p", "e", "r", "sh", "e", "m", "b", "e">>,
     <<"p", "e", "r", "s", "e", "m", "b", "e">>, <<"c", "u", "m", "a">>, <<"c", "u", "m", "a", "r", "t", "e", "s", "i">>, <<"p", "a", "z", "a", "r">>}
_MONTH_NAMES ==
    {<<"o", "c", "a", "k">>, <<"sh", "u", "b", "a", "t">>, <<"s", "u", "b", "a", "t">>, <<"m", "a", "r", "t">>, <<"n", "i", "s", "a", "n">>, <<"m", "a", "y", "ih", "s">>, <<"m", "a", "y", "i", "s">>,
     <<"h", "a", "z", "i", "r", "a", "n">>, <<"t", "e", "m", "m", "u", "z">>, <<"a", "gh", "u", "s", "t", "o", "s">>, <<"a", "g", "u", "s", "t", "o", "s">>, <<"e", "y", "l", "ue", "l">>, <<"e", "y", "l", "u", "l">>,
     <<"e", "k", "i", "m">>, <<"k", "a", "s", "ih", "m">>, <<"k", "a", "s", "i", "m">>, <<"a", "r", "a", "l", "ih", "k">>, <<"a", "r", "a", "l", "i", "k">>}

\* _DATE_NUMERIC_PATTERN at i: \b\d{1,2}\s*[/.-]\s*\d{1,2}\b
DateNumericAt(s, i) ==
    LET n == DigitRun(s, i)
        sep == SkipSpaces(s, i + n)
        d == SkipSpaces(s, sep + 1)
    IN /\ n > 0
       /\ Boundary(s, i)
       /\ sep <= Len(s)
       /\ s[sep] \in {"/", ".", "-"}
       /\ DigitRun(s, d) > 0
       /\ Boundary(s, d + DigitRun(s, d))

\* _match_contains_explicit_date
_match_contains_explicit_date(fragment) ==
    LET lowered == Lower(fragment) IN
    \/ \E i \in DOMAIN lowered : DateNumericAt(lowered, i)
    \/ _contains_any(lowered, _DATE_KEYWORDS)
    \/ _contains_any(lowered, _DAY_NAMES)
    \/ _contains_any(lowered, _MONTH_NAMES)

\* the calendar
IsLeap(year) == year % 4 = 0 /\ (year % 100 # 0 \/ year % 400 = 0)
DaysInMonth(year, month) ==
    IF month = 2 THEN (IF IsLeap(year) THEN 29 ELSE 28)
    ELSE IF month \in {4, 6, 9, 11} THEN 30 ELSE 31
\* every month has 31 days
ValidDayOfLongMonth(value, day) == day >= 1 /\ day <= 31
\* datetime.replace(day=...) raises ValueError for a day the month lacks
ValidDay(value, day) == day >= 1 /\ day <= DaysInMonth(value.year, value.month)
NextDay(value) ==
    IF value.day < DaysInMonth(value.year, value.month)
    THEN [value EXCEPT !.day = value.day + 1]
    ELSE IF value.month < 12
         THEN [value EXCEPT !.month = value.month + 1, !.day = 1]
         ELSE [value EXCEPT !.year = value.year + 1, !.month = 1, !.day = 1]
PrevDay(value) ==
    IF value.day > 1 THEN [value EXCEPT !.day = value.day - 1]
    ELSE IF value.month > 1
         THEN [value EXCEPT !.month = value.month - 1,
                            !.day = DaysInMonth(value.year, value.month - 1)]
         ELSE [value EXCEPT !.year = value.year - 1, !.month = 12, !.day = 31]

\* a datetime of the extractor: a wall-clock reading in settings.timezone
DateTime(year, month, day, hour, minute, second, microsecond) ==
    [year |-> year, month |-> month, day |-> day, hour |-> hour,
     minute |-> minute, second |-> second, microsecond |-> microsecond]

\* the candidates handed to the date library, in order and without repeats
date_candidates(normalised, time_match) ==
    LET first == IF normalised # <<>> THEN <<normalised>> ELSE <<>>
        pre_text == Strip(Upto(normalised, time_match[1].start))
        post_text == Strip(From(normalised, time_match[1].end))
        stripped == Strip(pre_text \o <<" ">> \o post_text)
        Add(list, candidate) ==
            IF candidate # <<>> /\ candidate \notin Range(list)
            THEN Append(list, candidate) ELSE list
    IN IF time_match = None THEN first
       ELSE Add(Add(Add(first, pre_text), stripped), post_text)

\* The library (dateparser) is outside the repository.  One request sees one
\* behaviour of it, `lib`:
\*   parse_at    the first candidate dateparser.parse turns into a datetime
\*               (0: none),
\*   search_at   the first candidate search_dates finds a date in (0: none),
\*   fragment    which words of that candidate search_dates reports as matched,
\*   date, clock the date it resolves, and the time of day it gives a text
\*               that states none.
\* A text that states a clock time HH:MM or HH.MM is resolved to that time.

\* the first HH:MM / HH.MM a text states, as [hour, minute], or None
WrittenClockAt(s, i) ==
    /\ DigitRun(s, i) = 2
    /\ i + 2 <= Len(s) /\ s[i + 2] \in {":", "."}
    /\ DigitRun(s, i + 3) = 2
    /\ ~(i > 1 /\ IsDigit(s[i - 1]))
    /\ ~(i + 5 <= Len(s) /\ IsDigit(s[i + 5]))
    /\ ToInt(SubSeq(s, i, i + 1)) <= 23
    /\ ToInt(SubSeq(s, i + 3, i + 4)) <= 59
WrittenClock(s) ==
    LET At(i) == Some([hour |-> ToInt(SubSeq(s, i, i + 1)),
                       minute |-> ToInt(SubSeq(s, i + 3, i + 4))])
    IN IF \E i \in DOMAIN s : WrittenClockAt(s, i)
       THEN At(Least({j \in DOMAIN s : WrittenClockAt(s, j)}))
       ELSE None

\* what the library resolves a text to
Resolved(lib, text) ==
    LET With(written) ==
            IF written = None
            THEN [lib.date EXCEPT !.hour = lib.clock.hour,
                                  !.minute = lib.clock.minute,
                                  !.second = lib.clock.second,
                                  !.microsecond = lib.clock.microsecond]
            ELSE [lib.date EXCEPT !.hour = written[1].hour,
                                  !.minute = written[1].minute,
                                  !.second = 0, !.microsecond = 0]
    IN With(WrittenClock(text))

\* dateparser.parse(candidate, ...) for the k-th candidate
dateparser_parse(lib, k, candidate) ==
    IF k = lib.parse_at THEN Some(Resolved(lib, candidate)) ELSE None

\* the words of the candidate that search_dates reports
Fragment(lib, candidate) ==
    LET Of(words) ==
            IF lib.fragment = "first" THEN words[1]
            ELSE IF lib.fragment = "last" THEN words[Len(words)]
            ELSE candidate
    IN Of(Split(candidate))
\* search_dates(candidate, ...)[0] for the k-th candidate: (text, datetime)
search_dates(lib, k, candidate) ==
    LET Match(fragment) == [text |-> fragment, value |-> Resolved(lib, fragment)]
    IN IF k = lib.search_at THEN Some(Match(Fragment(lib, candidate))) ELSE None

\* the first loop of parse_datetime: the first candidate that parses
RECURSIVE parse_loop(_, _, _)
parse_loop(lib, candidates, k) ==
    LET Try(parsed) ==
            IF parsed # None THEN parsed ELSE parse_loop(lib, candidates, k + 1)
    IN IF k > Len(candidates) THEN None
       ELSE Try(dateparser_parse(lib, k, candidates[k]))
\* the second loop: the first candidate with a match
RECURSIVE search_loop(_, _, _)
search_loop(lib, candidates, k) ==
    LET Try(matches) ==
            IF matches # None THEN matches ELSE search_loop(lib, candidates, k + 1)
    IN IF k > Len(candidates) THEN None
       ELSE Try(search_dates(lib, k, candidates[k]))

\* parse_datetime(text, reference=reference, default_hour=default_hour,
\* default_minute=default_minute); default_hour is an Optional.  The steps
\* of the function in the order of the code, each taking what the steps
\* before it computed.
parse_datetime(text, reference, default_hour, default_minute, lib) ==
    LET \* extracted_hour, from group(1) of hour_match and the period hint
        Hour(digits, period_hint) ==
            IF ~(digits # None /\ ToInt(digits[1]) >= 0 /\ ToInt(digits[1]) <= 23)
            THEN None
            ELSE IF period_hint /\ ToInt(digits[1]) < 12
                 THEN Some(ToInt(digits[1]) + 12)
                 ELSE Some(ToInt(digits[1]))
        ExtractedHour(normalised, time_match) ==
            IF time_match = None THEN None
            ELSE Hour(hour_match(Slice(normalised, time_match[1].start,
                                       time_match[1].end)),
                      _detect_period_hint(
                          Lower(Upto(normalised, time_match[1].start))))
        \* parsed, parsed_from_search and search_match_text after the two
        \* loops; None when both found nothing
        Parsed(direct, searched) ==
            IF direct # None
            THEN Some([parsed |-> direct[1], parsed_from_search |-> FALSE,
                       search_match_text |-> <<>>])
            ELSE IF searched # None
                 THEN Some([parsed |-> searched[1].value,
                            parsed_from_search |-> TRUE,
                            search_match_text |-> searched[1].text])
                 ELSE None
        Loops(candidates) ==
            Parsed(parse_loop(lib, candidates, 1), search_loop(lib, candidates, 1))
        \* a searched fragment without a date keeps the reference's date
        Dated(found) ==
            IF /\ found.parsed_from_search
               /\ ~_match_contains_explicit_date(found.search_match_text)
            THEN [found.parsed EXCEPT !.year = reference.year,
                                      !.month = reference.month,
                                      !.day = reference.day]
            ELSE found.parsed
        \* parsed.replace(day=...), skipped on ValueError
        WithDay(value, day_suffix_match) ==
            IF day_suffix_match # None /\ ValidDay(value, day_suffix_match[1])
            THEN [value EXCEPT !.day = day_suffix_match[1]]
            ELSE value
        \* parsed.replace(hour=..., minute=default_minute, ...)
        WithTime(value, extracted_hour) ==
            IF extracted_hour # None
            THEN [value EXCEPT !.hour = extracted_hour[1],
                               !.minute = default_minute,
                               !.second = 0, !.microsecond = 0]
            ELSE IF default_hour # None /\ ~_has_explicit_time(text)
                 THEN [value EXCEPT !.hour = default_hour[1],
                                    !.minute = default_minute,
                                    !.second = 0, !.microsecond = 0]
                 ELSE value
        Finish(found, day_suffix_match, extracted_hour) ==
            IF found = None THEN None
            ELSE Some(WithTime(WithDay(Dated(found[1]), day_suffix_match),
                               extracted_hour))
        Matched(normalised, time_match) ==
            Finish(Loops(date_candidates(normalised, time_match)),
                   _DAY_SUFFIX_PATTERN_search(normalised),
                   ExtractedHour(normalised, time_match))
        Normalised(normalised) ==
            Matched(normalised, _TIME_PATTERN_search(normalised))
    IN Normalised(_normalise_text(text))

\* settings.timezone is Europe/Istanbul, three hours ahead of UTC
UtcOffsetHours == 3
\* to_utc: the same instant as a UTC reading
to_utc(value) ==
    IF value.hour >= UtcOffsetHours
    THEN [value EXCEPT !.hour = value.hour - UtcOffsetHours]
    ELSE [PrevDay(value) EXCEPT !.hour = value.hour + 24 - UtcOffsetHours]
\* datetime.isoformat() of a UTC value
isoformat(value) == [iso |-> value, offset |-> "+00:00"]

-----------------------------------------------------------------------------
(* The remote classifier (core/llm_intent.py) *)

\* JSON values
JValue(type, text, items, fields) ==
    [type |-> type, text |-> text, items |-> items, fields |-> fields]
JNull == JValue("null", <<>>, <<>>, EmptyDict)
JStr(s) == JValue("str", s, <<>>, EmptyDict)
JList(items) == JValue("list", <<>>, items, EmptyDict)
JDict(d) == JValue("dict", <<>>, <<>>, d)
\* bool(value)
JTruthy(j) ==
    CASE j.type = "null" -> FALSE
      [] j.type = "dict" -> DOMAIN j.fields # {}
      [] j.type = "list" -> Len(j.items) > 0
      [] j.type = "str" -> Len(j.text) > 0
\* dict.get(key) on a parsed JSON object
JGet(obj, key) == IF key \in DOMAIN obj.fields THEN obj.fields[key] ELSE JNull

\* the body of the response: message.content
EmptyBody == [empty |-> TRUE, valid |-> FALSE, value |-> JNull]
InvalidBody == [empty |-> FALSE, valid |-> FALSE, value |-> JNull]
JsonBody(value) == [empty |-> FALSE, valid |-> TRUE, value |-> value]

\* what a classifier call comes to
Returned(action, consulted) ==
    [raised |-> FALSE, action |-> action, consulted |-> consulted]
Raised(consulted) == [raised |-> TRUE, action |-> None, consulted |-> consulted]
Action(intent, payload) == Some([intent |-> intent, payload |-> payload])

\* handle_with_llm; `remote` is what the completion call does: it raises one
\* of the three transport errors, or returns a response whose first choice
\* holds `content` (None when there is no choice or no content)
handle_with_llm(text, remote) ==
    IF Strip(text) = <<>> THEN Returned(None, <<"llm">>)
    ELSE IF remote.transport_error THEN Raised(<<"llm">>)
    ELSE IF remote.content = None \/ remote.content[1].empty THEN Raised(<<"llm">>)
    ELSE IF ~remote.content[1].valid THEN Raised(<<"llm">>)
    ELSE LET payload == remote.content[1].value IN
         IF payload.type # "dict" THEN Raised(<<"llm">>)     \* AttributeError
         ELSE LET named == JGet(payload, "intent")
                  intent == Strip(IF JTruthy(named) THEN named.text ELSE <<>>)
                  given == JGet(payload, "payload")
                  data == IF JTruthy(given) THEN given ELSE JDict(EmptyDict)
              IN IF intent = <<>> THEN Raised(<<"llm">>)
                 ELSE IF data.type # "dict" THEN Raised(<<"llm">>)
                 ELSE Returned(Action(intent, data.fields), <<"llm">>)

-----------------------------------------------------------------------------
(* The rule classifier (core/intent.py) *)

\* keyword and default hour, in the order of the dict
_EVENT_KEYWORDS ==
    << [keyword |-> <<"t", "o", "p", "l", "a", "n", "t">>, hour |-> 10],
       [keyword |-> <<"g", "oe", "r", "ue", "sh">>, hour |-> 10],
       [keyword |-> <<"k", "o", "n", "f", "e", "r", "a", "n", "s">>, hour |-> 10],
       [keyword |-> <<"e", "t", "k", "i", "n", "l", "i", "k">>, hour |-> 20],
       [keyword |-> <<"k", "o", "n", "s", "e", "r">>, hour |-> 20],
       [keyword |-> <<"s", "u", "n", "u", "m">>, hour |-> 10] >>
_TASK_KEYWORDS == {<<"y", "a", "p">>, <<"g", "oe", "r", "e", "v">>, <<"t", "a", "s", "k">>, <<"h", "a", "t", "ih", "r", "l", "a">>, <<"t", "a", "m", "a", "m", "l", "a">>}
_LIST_EVENTS_KEYWORDS == {<<"a", "j", "a", "n", "d", "a">>, <<"t", "a", "k", "v", "i", "m">>, <<"e", "t", "k", "i", "n", "l", "i", "k", "l", "e", "r">>, <<"b", "u", "g", "ue", "n">>}
_LIST_TASKS_KEYWORDS == {<<"g", "oe", "r", "e", "v", "l", "e", "r", "i">>, <<"y", "a", "p", "ih", "l", "a", "c", "a", "k">>, <<"t", "o", "d", "o">>, <<"l", "i", "s", "t", "e">>}
_SUMMARY_KEYWORDS == {<<"oe", "z", "e", "t">>, <<"t", "o", "p", "a", "r", "l", "a">>}
_INGEST_NOUN_HINTS ==
    {<<"b", "e", "l", "g", "e">>, <<"b", "e", "l", "g", "e", "l", "e", "r", "i">>, <<"d", "o", "s", "y", "a">>, <<"d", "o", "s", "y", "a", "l", "a", "r", "ih">>, <<"d", "o", "k", "u", "m", "a", "n">>, <<"d", "o", "k", "ue", "m", "a", "n">>}
_INGEST_VERB_HINTS == {<<"y", "ue", "k", "l", "e">>, <<"e", "k", "l", "e">>, <<"a", "k", "t", "a", "r">>, <<"a", "r", "sh", "i", "v", "l", "e">>}
_ADVISE_KEYWORDS == {<<"oe", "n", "e", "r">>, <<"u", "y", "a", "r", "ih">>, <<"k", "o", "n", "t", "r", "o", "l">>}
_REMINDER_KEYWORDS == {<<"h", "a", "t", "ih", "r", "l", "a", "t">>, <<"a", "l", "a", "r", "m">>}
_UPDATE_KEYWORDS == {<<"g", "ue", "n", "c", "e", "l", "l", "e">>, <<"d", "e", "gh", "i", "sh", "t", "i", "r">>}
_DELETE_KEYWORDS == {<<"s", "i", "l">>, <<"i", "p", "t", "a", "l">>}
_COMPLETE_KEYWORDS == {<<"t", "a", "m", "a", "m", "l", "a">>, <<"b", "i", "t", "i", "r">>, <<"k", "a", "p", "a", "t", "t", "ih", "m">>}
_ADD_HINTS == {<<"e", "k", "l", "e">>, <<"o", "l", "u", "sh", "t", "u", "r">>, <<"k", "a", "y", "d", "e", "t">>}
_TITLE_FALLBACK == <<"M", "i", "r", "a", " ", "N", "o", "t", "u">>
timezone_name == "Europe/Istanbul"

\* the loop over _EVENT_KEYWORDS: the default hour of the first keyword that
\* occurs in the text, or None
RECURSIVE first_event_keyword(_, _)
first_event_keyword(lowered, keywords) ==
    IF keywords = <<>> THEN None
    ELSE IF Contains(lowered, Head(keywords).keyword) THEN Some(Head(keywords).hour)
         ELSE first_event_keyword(lowered, Tail(keywords))

\* the event keywords left unexamined
no_event_keyword(lowered) == None

event_keyword_hour(lowered) == first_event_keyword(lowered, _EVENT_KEYWORDS)

\* an ingest command recognised by its verb alone
_looks_like_ingest_by_verb(text) == _contains_any(text, _INGEST_VERB_HINTS)

_looks_like_ingest_command(text) ==
    _contains_any(text, _INGEST_NOUN_HINTS) /\ _contains_any(text, _INGEST_VERB_HINTS)

\* an add hint recognised only at the start of the text
_looks_like_add_prefix(text) == \E hint \in _ADD_HINTS : MatchAt(text, 1, hint)

_looks_like_add_command(text) == _contains_any(text, _ADD_HINTS)

\* _infer_title
FirstSix(words) == IF Len(words) <= 6 THEN words ELSE SubSeq(words, 1, 6)
_infer_title(text) ==
    LET stripped == Strip(text) IN
    IF stripped = <<>> THEN _TITLE_FALLBACK
    ELSE LET words == FirstSix(Split(stripped))
         IN Join([i \in DOMAIN words |-> Capitalize(words[i])], <<" ">>)

\* _extract_topic: the first capital letter followed by word characters, with
\* all the word characters that follow; else the last two words; else the text
TopicAt(text, i) ==
    IsUpper(text[i]) /\ i + 1 <= Len(text) /\ IsWordChar(text[i + 1])
WordRunEnd(text, i) ==
    IF \E j \in i..Len(text) : ~IsWordChar(text[j])
    THEN Least({j \in i..Len(text) : ~IsWordChar(text[j])})
    ELSE Len(text) + 1
_extract_topic(text) ==
    IF \E i \in DOMAIN text : TopicAt(text, i)
    THEN LET i == Least({j \in DOMAIN text : TopicAt(text, j)})
         IN Slice(text, i, WordRunEnd(text, i + 1))
    ELSE LET words == Split(text) IN
         IF Len(words) >= 2
         THEN Join(SubSeq(words, Len(words) - 1, Len(words)), <<" ">>)
         ELSE text

\* _extract_number: int() of the first run of digits, or None
DigitsEnd(text, i) ==
    IF \E j \in i..Len(text) : ~IsDigit(text[j])
    THEN Least({j \in i..Len(text) : ~IsDigit(text[j])})
    ELSE Len(text) + 1
\* _extract_number reading one digit where the code reads the run  (\d)
_extract_number_one_digit(text) ==
    IF \E i \in DOMAIN text : IsDigit(text[i])
    THEN LET i == Least({j \in DOMAIN text : IsDigit(text[j])})
         IN Some(DigitValue(text[i]))
    ELSE None
_extract_number(text) ==
    IF \E i \in DOMAIN text : IsDigit(text[i])
    THEN LET i == Least({j \in DOMAIN text : IsDigit(text[j])})
         IN Some(ToInt(Slice(text, i, DigitsEnd(text, i))))
    ELSE None
\* entity_id or 0
IdOrZero(entity_id) == IF entity_id = None \/ entity_id[1] = 0 THEN 0 ELSE entity_id[1]

\* _build_event_action; `parsed` is the keyword argument (None by default)
_build_event_action(text, default_hour, parsed, reference, lib) ==
    LET title == Or(_infer_title(text), _TITLE_FALLBACK)
        When(local_dt) ==
            IF local_dt = None THEN EmptyDict
            ELSE ("start" :> isoformat(to_utc(local_dt[1])))
                    @@ ("timezone" :> timezone_name)
    IN Action("add_event",
              ("title" :> title)
                  @@ When(IF parsed # None THEN parsed
                          ELSE parse_datetime(text, reference, Some(default_hour),
                                              0, lib))
                  @@ ("remind_policy" :>
                          [minutes_before |-> DEFAULT_REMINDERS, voice |-> TRUE]))

\* the due kept as the local reading
_build_task_action_local(text, reference, lib) ==
    LET Due(due_local) ==
            IF due_local = None THEN EmptyDict
            ELSE "due" :> isoformat(due_local[1])
    IN Action("add_task",
              ("title" :> Or(Strip(text), _TITLE_FALLBACK))
                  @@ Due(parse_datetime(text, reference, Some(17), 0, lib)))
\* _build_task_action
_build_task_action(text, reference, lib) ==
    LET Due(due_local) ==
            IF due_local = None THEN EmptyDict
            ELSE "due" :> isoformat(to_utc(due_local[1]))
    IN Action("add_task",
              ("title" :> Or(Strip(text), _TITLE_FALLBACK))
                  @@ Due(parse_datetime(text, reference, Some(17), 0, lib)))

\* _build_reminder_action
_build_reminder_action(text, reference, lib) ==
    LET RemindAt(target_dt) ==
            IF target_dt = None THEN EmptyDict
            ELSE "remind_at" :> isoformat(to_utc(target_dt[1]))
    IN Action("schedule_reminder",
              ("message" :> Strip(text))
                  @@ RemindAt(parse_datetime(text, reference, Some(9), 0, lib)))

\* handle_with_rules; `reference` is the clock reading and `lib` the date
\* library's behaviour for this text
handle_with_rules(text, reference, lib) ==
    LET lowered == Strip(Lower(text))
        entity_id == IdOrZero(_extract_number(lowered))
        about_event == Contains(lowered, <<"e", "t", "k", "i", "n">>) \/ Contains(lowered, <<"t", "o", "p", "l", "a", "n", "t">>)
        \* the add branch, given parsed_dt
        Add(parsed_dt) ==
            IF parsed_dt # None
            THEN _build_event_action(text, 18, parsed_dt, reference, lib)
            ELSE _build_task_action(text, reference, lib)
    IN
    IF lowered = <<>> THEN None
    ELSE IF event_keyword_hour(lowered) # None
    THEN _build_event_action(text, event_keyword_hour(lowered)[1], None, reference, lib)
    ELSE IF _contains_any(lowered, _REMINDER_KEYWORDS)
    THEN _build_reminder_action(text, reference, lib)
    ELSE IF _contains_any(lowered, _LIST_EVENTS_KEYWORDS)
    THEN Action("list_events", "range" :> "today")
    ELSE IF _looks_like_ingest_command(lowered)
    THEN Action("ingest_docs", "topic" :> _extract_topic(text))
    ELSE IF _contains_any(lowered, _SUMMARY_KEYWORDS)
    THEN Action("summarize_topic", "topic" :> _extract_topic(text))
    ELSE IF _contains_any(lowered, _ADVISE_KEYWORDS)
    THEN Action("advise_on_topic", "topic" :> _extract_topic(text))
    ELSE IF _contains_any(lowered, _LIST_TASKS_KEYWORDS)
    THEN Action("list_tasks", "scope" :> "today")
    ELSE IF _looks_like_add_command(lowered)
    THEN Add(parse_datetime(text, reference, Some(18), 0, lib))
    ELSE IF _contains_any(lowered, _UPDATE_KEYWORDS)
    THEN IF about_event
         THEN Action("update_event", ("event_id" :> entity_id) @@ ("text" :> text))
         ELSE Action("update_task", ("task_id" :> entity_id) @@ ("text" :> text))
    ELSE IF _contains_any(lowered, _DELETE_KEYWORDS)
    THEN IF about_event
         THEN Action("delete_event", "event_id" :> entity_id)
         ELSE Action("delete_task", "task_id" :> entity_id)
    ELSE IF _contains_any(lowered, _COMPLETE_KEYWORDS)
    THEN Action("complete_task", "task_id" :> entity_id)
    ELSE IF _contains_any(lowered, _TASK_KEYWORDS)
    THEN _build_task_action(text, reference, lib)
    ELSE Action("note", "text" :> text)

\* handle with the errors of the remote classifier left uncaught
handle_uncaught(text, config, remote, reference, lib) ==
    LET stripped == Strip(text)
        use_llm == config.use_llm_intent /\ Truthy(config.openai_api_key)
        llm == handle_with_llm(stripped, remote)
    IN IF stripped = <<>> THEN Returned(None, <<>>)
       ELSE IF use_llm /\ llm.raised THEN Raised(<<"llm">>)
       ELSE IF use_llm /\ llm.action # None THEN Returned(llm.action, <<"llm">>)
       ELSE Returned(handle_with_rules(stripped, reference, lib),
                     IF use_llm THEN <<"llm", "rules">> ELSE <<"rules">>)

\* handle; `config` holds settings.use_llm_intent and settings.openai_api_key
handle(text, config, remote, reference, lib) ==
    LET stripped == Strip(text)
        use_llm == config.use_llm_intent /\ Truthy(config.openai_api_key)
        \* the try block: the remote Action, or nothing after an exception
        llm == handle_with_llm(stripped, remote)
    IN IF stripped = <<>> THEN Returned(None, <<>>)
       ELSE IF use_llm /\ ~llm.raised /\ llm.action # None
            THEN Returned(llm.action, <<"llm">>)
            ELSE Returned(handle_with_rules(stripped, reference, lib),
                          IF use_llm THEN <<"llm", "rules">> ELSE <<"rules">>)

-----------------------------------------------------------------------------
(* Classifier and extractor calls *)

\* the longest input text, in words of the vocabulary
MaxWords == 2

WordLists(words) == UNION {[1..k -> words] : k \in 0..MaxWords}
\* the words joined by single spaces; the empty word gives leading, trailing
\* and doubled spaces
Texts(words) == {Join(ws, <<" ">>) : ws \in WordLists(words)}

\* one word or phrase for every keyword category, and one that is no keyword
IntentWords ==
    {<<>>, <<"N", "o", "t">>, <<"t", "o", "p", "l", "a", "n", "t", "ih">>, <<"h", "a", "t", "ih", "r", "l", "a", "t">>, <<"b", "u", "g", "ue", "n">>, <<"d", "o", "s", "y", "a">>,
     <<"d", "o", "s", "y", "a", " ", "y", "ue", "k", "l", "e">>, <<"oe", "z", "e", "t">>, <<"oe", "n", "e", "r">>, <<"l", "i", "s", "t", "e">>, <<"e", "k", "l", "e">>, <<"g", "ue", "n", "c", "e", "l", "l", "e">>,
     <<"s", "i", "l">>, <<"b", "i", "t", "i", "r">>, <<"g", "oe", "r", "e", "v">>}
\* longer texts: a keyword and an hour before 03:00; a command that names its
\* target by number
IntentPhrases ==
    {<<"t", "o", "p", "l", "a", "n", "t", "ih", " ", "s", "a", "a", "t", " ", "1">>, <<"h", "a", "t", "ih", "r", "l", "a", "t", " ", "s", "a", "a", "t", " ", "2", " ", "d", "e">>, <<"g", "oe", "r", "e", "v", " ", "s", "a", "a", "t", " ", "0">>,
     <<"g", "oe", "r", "e", "v", " ", "1", "2", " ", "s", "i", "l", " ", "7">>, <<"e", "t", "k", "i", "n", "l", "i", "gh", "i", " ", "s", "i", "l", " ", "3">>, <<"e", "t", "k", "i", "n", "l", "i", "gh", "i", " ", "g", "ue", "n", "c", "e", "l", "l", "e", " ", "0", "5">>,
     <<"4", "0", " ", "g", "ue", "n", "c", "e", "l", "l", "e">>, <<"b", "i", "t", "i", "r", " ", "0">>, <<"9", ".", " ", "g", "oe", "r", "e", "v", "i", " ", "b", "i", "t", "i", "r">>}
\* the texts sent through handle()
HandleWords == {<<>>, <<"N", "o", "t">>, <<"t", "o", "p", "l", "a", "n", "t", "ih">>, <<"e", "k", "l", "e">>}
\* dates, times and what surrounds them
ParseWords ==
    {<<>>, <<"Y", "a", "r", "ih", "n">>, <<"s", "a", "a", "t">>, <<"1", "4", ":", "3", "0">>, <<"0", "9", ".", "0", "5">>, <<"7">>, <<"d", "a">>, <<"A", "k", "sh", "a", "m">>,
     <<"t", "o", "p", "l", "a", "n", "t", "ih">>}

\* longer texts: period hints, hours, days of the month
ParsePhrases ==
    {<<"A", "k", "sh", "a", "m", " ", "s", "a", "a", "t", " ", "9", " ", "d", "a">>, <<"A", "k", "sh", "a", "m", " ", "e", "v", "e", " ", "7", " ", "d", "e">>, <<"A", "k", "sh", "a", "m", " ", "e", "v", "e", " ", "g", "e", "l", " ", "v", "e", " ", "7", " ", "d", "e">>,
     <<"A", "k", "s", "a", "m", "u", "s", "t", "u", " ", "s", "a", "a", "t", " ", "1", "4">>, <<"2", "2", "'", "s", "i", " ", "s", "a", "a", "t", " ", "1", "0", ":", "0", "0", "'", "d", "a">>, <<"3", "1", "'", "s", "i">>, <<"Y", "a", "r", "ih", "n", " ", "3", "2", "'", "s", "i">>,
     <<"Y", "a", "r", "ih", "n", " ", "s", "a", "a", "t", " ", "2", "5">>, <<"B", "u", "g", "ue", "n", " ", "1", "6", " ", "d", "a", " ", "r", "a", "p", "o", "r">>}

\* the clock reading of the call: Thursday 2 October 2025, 09:05:07.000011
Reference == DateTime(2025, 10, 2, 9, 5, 7, 11)
ReferenceClock ==
    [hour |-> Reference.hour, minute |-> Reference.minute,
     second |-> Reference.second, microsecond |-> Reference.microsecond]
Midnight == [hour |-> 0, minute |-> 0, second |-> 0, microsecond |-> 0]
\* a date in a month of thirty days
EndOfNovember == [Reference EXCEPT !.month = 11, !.day = 30]

Lib(parse_at, search_at, fragment, date, clock) ==
    [parse_at |-> parse_at, search_at |-> search_at, fragment |-> fragment,
     date |-> date, clock |-> clock]
\* the library finds no date
NoDate == Lib(0, 0, "all", Reference, ReferenceClock)
\* the candidates parse_datetime offers the library for a text
CandidatesOf(text) ==
    date_candidates(_normalise_text(text), _TIME_PATTERN_search(_normalise_text(text)))
\* the behaviours of the library for a text
Library(text) ==
    LET at == DOMAIN CandidatesOf(text)
        dates == {Reference, NextDay(Reference), EndOfNovember}
        clocks == {ReferenceClock, Midnight}
    IN {NoDate}
       \cup {Lib(k, 0, "all", d, c) : k \in at, d \in dates, c \in clocks}
       \cup {Lib(0, k, f, d, c) :
                k \in at, f \in {"all", "first", "last"}, d \in dates, c \in clocks}
\* ... of which the classifier calls see these
SmallLibrary(text) ==
    {NoDate}
    \cup {lib \in Library(text) :
            /\ lib.parse_at <= 1 /\ lib.search_at <= 1
            /\ lib.fragment = "all"
            /\ lib.date = NextDay(Reference) /\ lib.clock = ReferenceClock}

\* settings.use_llm_intent and settings.openai_api_key
Config(use_llm_intent, openai_api_key) ==
    [use_llm_intent |-> use_llm_intent, openai_api_key |-> openai_api_key]
ApiKey == Some("sk-key")
Disabled == {Config(FALSE, None), Config(FALSE, ApiKey), Config(TRUE, None)}
Enabled == Config(TRUE, ApiKey)

TransportError == [transport_error |-> TRUE, content |-> None]
Response(content) == [transport_error |-> FALSE, content |-> content]
\* {"intent": ..., "payload": ...} with either key left out when None
Reply(intent, payload) ==
    JsonBody(JDict((IF intent = None THEN EmptyDict ELSE "intent" :> intent[1])
                   @@ (IF payload = None THEN EmptyDict ELSE "payload" :> payload[1])))
RemoteIntents == {None, Some(JStr(<<" ">>)), Some(JStr(<<"a", "d", "d", "_", "t", "a", "s", "k">>))}
RemotePayloads ==
    {None, Some(JDict(EmptyDict)), Some(JDict("title" :> JStr(<<"R", "a", "p", "o", "r">>))),
     Some(JList(<<>>)), Some(JList(<<JStr(<<"R", "a", "p", "o", "r">>)>>))}
Remotes ==
    {TransportError, Response(None), Response(Some(EmptyBody)),
     Response(Some(InvalidBody)), Response(Some(JsonBody(JList(<<>>))))}
    \cup {Response(Some(Reply(i, p))) : i \in RemoteIntents, p \in RemotePayloads}

Request(entry, text, config, remote, default_hour, lib) ==
    [entry |-> entry, text |-> text, config |-> config, remote |-> remote,
     reference |-> Reference, default_hour |-> default_hour, lib |-> lib]

\* a direct call of the rule classifier
RuleRequest(c) ==
    \E text \in Texts(IntentWords) \cup IntentPhrases : \E lib \in SmallLibrary(text) :
        c = Request("handle_with_rules", text, Enabled, TransportError, None, lib)
\* a call of handle(): with the remote classifier enabled and every way it
\* can answer, or with it disabled
HandleRequest(c) ==
    \E text \in Texts(HandleWords) :
        \E lib \in {l \in SmallLibrary(text) : l.search_at = 0} :
            \/ \E remote \in Remotes :
                    c = Request("handle", text, Enabled, remote, None, lib)
            \/ \E config \in Disabled :
                    c = Request("handle", text, config, TransportError, None, lib)
\* a call of the extractor
ParseRequest(c) ==
    \E text \in Texts(ParseWords) \cup ParsePhrases :
        \E h \in {None, Some(18)} : \E lib \in Library(text) :
            c = Request("parse_datetime", text, Enabled, TransportError, h, lib)

\* nothing stored, nothing in flight
NoStore ==
    /\ events = <<>>
    /\ tasks = <<>>
    /\ jobs = {}
    /\ svc_jobs = {}
    /\ now = 0
    /\ steps = 0
    /\ last = NoCall
    /\ procs = <<>>

InitClassify ==
    /\ NoStore
    /\ RuleRequest(call) \/ HandleRequest(call)
    /\ result = None

\* a call of handle()
Handle ==
    /\ result = None
    /\ call.entry = "handle"
    /\ result' = Some(handle(call.text, call.config, call.remote, call.reference,
                             call.lib))
    /\ UNCHANGED <<events, tasks, jobs, svc_jobs, now, steps, last, procs, call>>

\* a direct call of handle_with_rules()
HandleWithRules ==
    /\ result = None
    /\ call.entry = "handle_with_rules"
    /\ result' = Some(Returned(handle_with_rules(call.text, call.reference, call.lib),
                               <<"rules">>))
    /\ UNCHANGED <<events, tasks, jobs, svc_jobs, now, steps, last, procs, call>>

NextClassify == Handle \/ HandleWithRules

SpecClassify == InitClassify /\ [][NextClassify]_vars

InitParse ==
    /\ NoStore
    /\ ParseRequest(call)
    /\ result = None

\* a call of parse_datetime()
ParseDatetime ==
    /\ result = None
    /\ call.entry = "parse_datetime"
    /\ result' = Some(parse_datetime(call.text, call.reference, call.default_hour,
                                     0, call.lib))
    /\ UNCHANGED <<events, tasks, jobs, svc_jobs, now, steps, last, procs, call>>

NextParse == ParseDatetime

SpecParse == InitParse /\ [][NextParse]_vars

-----------------------------------------------------------------------------
(* What the claims say about the classifier *)

\* the call has returned
Done == result # None
\* empty or nothing but spaces
IsBlank(text) == \A i \in DOMAIN text : text[i] = " "
\* the text without the spaces around it
Trimmed(text) ==
    IF IsBlank(text) THEN <<>>
    ELSE SubSeq(text,
                Least({i \in DOMAIN text : text[i] # " "}),
                CHOOSE i \in DOMAIN text :
                    text[i] # " " /\ \A j \in (i + 1)..Len(text) : text[j] = " ")
\* the text handle_with_rules is given
RulesText == IF call.entry = "handle" THEN Trimmed(call.text) ELSE call.text
\* the rule classifier decided the call
ByRules ==
    /\ Done
    /\ result[1].consulted # <<>>
    /\ result[1].consulted[Len(result[1].consulted)] = "rules"
    /\ result[1].action # None
TheAction == result[1].action[1]

\* the remote classifier was enabled with a credential
RemoteEnabled ==
    /\ call.entry = "handle"
    /\ call.config.use_llm_intent
    /\ call.config.openai_api_key # None

\* the keyword categories in the order of the claim, and when a lower-cased
\* text satisfies one
Categories ==
    <<"event", "reminder", "list_events", "ingest", "summary", "advise",
      "list_tasks", "add", "update", "delete", "complete", "task">>
Satisfies(text, category) ==
    LET Has(keywords) == \E k \in keywords : Contains(text, k) IN
    CASE category = "event" ->
            \E i \in DOMAIN _EVENT_KEYWORDS : Contains(text, _EVENT_KEYWORDS[i].keyword)
      [] category = "reminder" -> Has(_REMINDER_KEYWORDS)
      [] category = "list_events" -> Has(_LIST_EVENTS_KEYWORDS)
      [] category = "ingest" -> Has(_INGEST_NOUN_HINTS) /\ Has(_INGEST_VERB_HINTS)
      [] category = "summary" -> Has(_SUMMARY_KEYWORDS)
      [] category = "advise" -> Has(_ADVISE_KEYWORDS)
      [] category = "list_tasks" -> Has(_LIST_TASKS_KEYWORDS)
      [] category = "add" -> Has(_ADD_HINTS)
      [] category = "update" -> Has(_UPDATE_KEYWORDS)
      [] category = "delete" -> Has(_DELETE_KEYWORDS)
      [] category = "complete" -> Has(_COMPLETE_KEYWORDS)
      [] category = "task" -> Has(_TASK_KEYWORDS)
IntentsOf(category) ==
    CASE category = "event" -> {"add_event"}
      [] category = "reminder" -> {"schedule_reminder"}
      [] category = "list_events" -> {"list_events"}
      [] category = "ingest" -> {"ingest_docs"}
      [] category = "summary" -> {"summarize_topic"}
      [] category = "advise" -> {"advise_on_topic"}
      [] category = "list_tasks" -> {"list_tasks"}
      [] category = "add" -> {"add_event", "add_task"}
      [] category = "update" -> {"update_event", "update_task"}
      [] category = "delete" -> {"delete_event", "delete_task"}
      [] category = "complete" -> {"complete_task"}
      [] category = "task" -> {"add_task"}
\* the categories the text of the call satisfies
Satisfied == {i \in DOMAIN Categories : Satisfies(Lower(RulesText), Categories[i])}
\* the first of them
FirstCategory == Categories[Least(Satisfied)]

\* what the claim counts as a failed remote call: a transport error, an empty
\* body, a body that is no JSON object, a missing or blank intent, a payload
\* that is present and is no mapping
RemoteFailed ==
    LET r == call.remote IN
    \/ r.transport_error
    \/ r.content = None
    \/ r.content[1].empty
    \/ ~r.content[1].valid
    \/ r.content[1].value.type # "dict"
    \/ "intent" \notin DOMAIN r.content[1].value.fields
    \/ IsBlank(r.content[1].value.fields["intent"].text)
    \/ /\ "payload" \in DOMAIN r.content[1].value.fields
       /\ r.content[1].value.fields["payload"].type # "dict"
\* the Action a well-formed remote reply describes
RemoteAction ==
    LET doc == call.remote.content[1].value.fields IN
    Action(Trimmed(doc["intent"].text),
           IF "payload" \in DOMAIN doc THEN doc["payload"].fields ELSE EmptyDict)

\* C1: for a non-blank input with the remote classifier enabled and a
\* credential set, handle() returns what handle_with_rules returns for the
\* trimmed text whenever the remote call fails (transport error, empty body,
\* invalid JSON, blank intent, non-mapping payload), and returns the remote
\* Action without consulting the rule classifier when the remote call succeeds.
C1_FallbackOnEveryFailure ==
    (Done /\ RemoteEnabled /\ ~IsBlank(call.text)) =>
        /\ ~result[1].raised
        /\ IF RemoteFailed
           THEN result[1].action
                    = handle_with_rules(Trimmed(call.text), call.reference, call.lib)
           ELSE /\ result[1].action = RemoteAction
                /\ "rules" \notin Range(result[1].consulted)

\* C6 as stated: every call of handle / handle_with_rules returns an Action,
\* never raising and never returning the absent value, and an input that
\* matches no keyword category yields a note whose text is the trimmed input.
C6_AsClaimed ==
    Done =>
        /\ ~result[1].raised
        /\ result[1].action # None
        /\ Satisfied = {} =>
              /\ TheAction.intent = "note"
              /\ DOMAIN TheAction.payload = {"text"}
              /\ TheAction.payload["text"] = Trimmed(call.text)

\* C6: handle / handle_with_rules never raise; they return the absent value
\* exactly for a blank input (empty or only spaces) and an Action for every
\* other input; when the rule classifier decides and the input matches no
\* keyword category the Action is a note whose text is the text the rule
\* classifier was given: the trimmed input under handle, the input as it is
\* under a direct call of handle_with_rules.
C6_ActionUnlessBlank ==
    Done =>
        /\ ~result[1].raised
        /\ (result[1].action = None) <=> IsBlank(call.text)
        /\ (ByRules /\ Satisfied = {}) =>
              /\ TheAction.intent = "note"
              /\ DOMAIN TheAction.payload = {"text"}
              /\ TheAction.payload["text"] = RulesText

\* C6 witness: handle_with_rules was called with spaces around a text that
\* matches no category, and the note carries the text with its spaces
C6_Witness ==
    /\ ByRules
    /\ call.entry = "handle_with_rules"
    /\ Satisfied = {}
    /\ call.text # Trimmed(call.text)
    /\ TheAction.intent = "note"
    /\ TheAction.payload["text"] = call.text

Extracted ==
    parse_datetime(RulesText, call.reference, Some(18), 0, call.lib) # None
\* add_event with a start when a date was extracted, add_task without a due
\* when none was
DateDecides ==
    IF Extracted
    THEN TheAction.intent = "add_event" /\ "start" \in DOMAIN TheAction.payload
    ELSE TheAction.intent = "add_task" /\ "due" \notin DOMAIN TheAction.payload

\* C8 as stated: every input containing an add hint (ekle / olustur / kaydet)
\* is classified add_event when a date can be extracted and add_task without
\* a due when none can.
C8_AsClaimed ==
    (ByRules /\ Satisfies(Lower(RulesText), "add")) => DateDecides

\* C8: an input containing an add hint and satisfying none of the categories
\* examined before it (event keywords, reminder, list-events, ingest, summary,
\* advise, list-tasks) is classified add_event, with a start, when a date can
\* be extracted, and add_task without a due when none can.
C8_AddHintDecidedByDate ==
    (ByRules /\ Satisfies(Lower(RulesText), "add") /\ FirstCategory = "add")
        => DateDecides

\* C8 witness: an add hint, nothing before it, no date: add_task without due
C8_Witness ==
    /\ ByRules
    /\ Satisfies(Lower(RulesText), "add")
    /\ FirstCategory = "add"
    /\ ~Extracted
    /\ TheAction.intent = "add_task"
    /\ "due" \notin DOMAIN TheAction.payload

HasNoun == \E k \in _INGEST_NOUN_HINTS : Contains(Lower(RulesText), k)
HasVerb == \E k \in _INGEST_VERB_HINTS : Contains(Lower(RulesText), k)

\* C9 as stated: an input with a document noun and an ingestion verb is
\* classified ingest_docs, and an input lacking either never is.
C9_AsClaimed ==
    ByRules =>
        /\ (HasNoun /\ HasVerb) => TheAction.intent = "ingest_docs"
        /\ ~(HasNoun /\ HasVerb) => TheAction.intent # "ingest_docs"

\* C9: an input with a document noun and an ingestion verb that matches no
\* event, reminder or list-events keyword is classified ingest_docs by the
\* rule classifier, and an input lacking the noun or the verb never is.
C9_IngestNeedsNounAndVerb ==
    ByRules =>
        /\ (HasNoun /\ HasVerb /\ FirstCategory = "ingest")
              => TheAction.intent = "ingest_docs"
        /\ ~(HasNoun /\ HasVerb) => TheAction.intent # "ingest_docs"

\* C9 witness: noun and verb, classified ingest_docs
C9_Witness ==
    /\ ByRules
    /\ HasNoun /\ HasVerb
    /\ TheAction.intent = "ingest_docs"
    /\ "topic" \in DOMAIN TheAction.payload

-----------------------------------------------------------------------------
(* What the claims say about the extractor *)

\* the text states exactly one clock time HH:MM / HH.MM with HH in 0..23
OneClock == Cardinality({i \in DOMAIN call.text : WrittenClockAt(call.text, i)}) = 1
\* the text the library resolved contains that clock time
LibraryReadTheClock ==
    LET candidates == CandidatesOf(call.text)
        piece == IF call.lib.parse_at \in DOMAIN candidates
                 THEN candidates[call.lib.parse_at]
                 ELSE Fragment(call.lib, candidates[call.lib.search_at])
    IN WrittenClock(piece) = WrittenClock(call.text)

\* C10: when the text states a clock time HH:MM or HH.MM and parse_datetime
\* succeeds, the hour and minute returned are HH and MM, for every
\* default_hour and with or without the word saat before the time.
C10_ClockTimeIsReturned ==
    (Done /\ result[1] # None /\ OneClock /\ LibraryReadTheClock) =>
        /\ result[1][1].hour = WrittenClock(call.text)[1].hour
        /\ result[1][1].minute = WrittenClock(call.text)[1].minute


-----------------------------------------------------------------------------
(* Calls of the text normaliser *)

\* the longest text normalised, in characters
MaxChars == 5
\* an apostrophe, the two kinds of whitespace, a digit and a letter
NormaliseChars == {"'", " ", "\t", "7", "d"}
\* a call of _normalise_text
NormaliseRequest(c) ==
    \E n \in 0..MaxChars : \E text \in [1..n -> NormaliseChars] :
        c = Request("_normalise_text", text, Enabled, TransportError, None, NoDate)

InitNormalise ==
    /\ NoStore
    /\ NormaliseRequest(call)
    /\ result = None

\* _normalise_text(text); result lists the values returned so far
NormaliseText ==
    /\ result = None
    /\ call.entry = "_normalise_text"
    /\ result' = Some(<<_normalise_text(call.text)>>)
    /\ UNCHANGED <<events, tasks, jobs, svc_jobs, now, steps, last, procs, call>>

\* _normalise_text applied to the value it returned
NormaliseAgain ==
    /\ result # None
    /\ call.entry = "_normalise_text"
    /\ Len(result[1]) = 1
    /\ result' = Some(Append(result[1], _normalise_text(result[1][1])))
    /\ UNCHANGED <<events, tasks, jobs, svc_jobs, now, steps, last, procs, call>>

NextNormalise == NormaliseText \/ NormaliseAgain

SpecNormalise == InitNormalise /\ [][NextNormalise]_vars

-----------------------------------------------------------------------------
(* Direct calls of the remote classifier adapter *)

\* a call of handle_with_llm with every way the completion call can answer
LlmRequest(c) ==
    \E text \in Texts(HandleWords) : \E remote \in Remotes :
        c = Request("handle_with_llm", text, Enabled, remote, None, NoDate)

InitRemote ==
    /\ NoStore
    /\ LlmRequest(call)
    /\ result = None

\* a call of handle_with_llm()
HandleWithLlm ==
    /\ result = None
    /\ call.entry = "handle_with_llm"
    /\ result' = Some(handle_with_llm(call.text, call.remote))
    /\ UNCHANGED <<events, tasks, jobs, svc_jobs, now, steps, last, procs, call>>

NextRemote == HandleWithLlm

SpecRemote == InitRemote /\ [][NextRemote]_vars

-----------------------------------------------------------------------------
(* handle() step by step, around the blocking call of the remote classifier *)

\* where the one call of handle() is
At(pc) == procs = <<[pc |-> pc]>>

InitBlocking ==
    /\ events = <<>>
    /\ tasks = <<>>
    /\ jobs = {}
    /\ svc_jobs = {}
    /\ now = 0
    /\ steps = 0
    /\ last = NoCall
    /\ HandleRequest(call)
    /\ At("start")
    /\ result = None

\* handle() up to the call of handle_with_llm: a blank text returns None;
\* with the remote classifier enabled and a credential set,
\* client.chat.completions.create(...) is issued; otherwise the rules are next
HandleStart ==
    /\ At("start")
    /\ IF Strip(call.text) = <<>>
       THEN /\ result' = Some(Returned(None, <<>>))
            /\ procs' = <<[pc |-> "done"]>>
       ELSE /\ result' = result
            /\ procs' = IF call.config.use_llm_intent
                            /\ Truthy(call.config.openai_api_key)
                        THEN <<[pc |-> "calling"]>>
                        ELSE <<[pc |-> "rules"]>>
    /\ UNCHANGED <<events, tasks, jobs, svc_jobs, now, steps, last, call>>

\* the completion call comes back: with a response or with an exception.
\* The call is made without a timeout and nothing in handle() or
\* handle_with_llm() ends it.
RemoteAnswers ==
    /\ At("calling")
    /\ procs' = <<[pc |-> "answered"]>>
    /\ UNCHANGED <<events, tasks, jobs, svc_jobs, now, steps, last, call, result>>

\* the rest of handle_with_llm and the try block of handle(): the Action of
\* the response is returned; an exception or None leads on to the rules
HandleAfterRemote ==
    /\ At("answered")
    /\ LET Then(llm) ==
            IF ~llm.raised /\ llm.action # None
            THEN /\ result' = Some(Returned(llm.action, <<"llm">>))
                 /\ procs' = <<[pc |-> "done"]>>
            ELSE /\ result' = result
                 /\ procs' = <<[pc |-> "rules"]>>
       IN Then(handle_with_llm(Strip(call.text), call.remote))
    /\ UNCHANGED <<events, tasks, jobs, svc_jobs, now, steps, last, call>>

\* return handle_with_rules(stripped)
HandleFallback ==
    /\ At("rules")
    /\ result' = Some(Returned(handle_with_rules(Strip(call.text), call.reference,
                                                 call.lib),
                               IF call.config.use_llm_intent
                                   /\ Truthy(call.config.openai_api_key)
                               THEN <<"llm", "rules">> ELSE <<"rules">>))
    /\ procs' = <<[pc |-> "done"]>>
    /\ UNCHANGED <<events, tasks, jobs, svc_jobs, now, steps, last, call>>

NextBlocking == HandleStart \/ RemoteAnswers \/ HandleAfterRemote \/ HandleFallback

\* handle() runs its own statements to the end; when the remote side
\* answers is not in its hands
SpecBlocking ==
    /\ InitBlocking
    /\ [][NextBlocking]_vars
    /\ WF_vars(HandleStart)
    /\ WF_vars(HandleAfterRemote)
    /\ WF_vars(HandleFallback)

-----------------------------------------------------------------------------
(* The dispatcher's other handlers (core/actions.py) *)

\* the methods class ReminderScheduler defines; a call of any other name on
\* self.scheduler raises AttributeError
ReminderScheduler_methods ==
    {"start", "shutdown", "add_callback", "schedule_event_reminders",
     "restore_jobs_from_db", "list_jobs", "_emit"}

\* the handle_<intent> methods class ActionDispatcher defines
ActionDispatcher_handlers ==
    {"add_event", "update_event", "delete_event", "note", "list_events",
     "add_task", "update_task", "complete_task", "list_tasks",
     "schedule_reminder", "ingest_docs", "summarize_topic", "advise_on_topic"}

\* ActionDispatcher.run up to the call of the handler: getattr finds no
\* handler and run raises NotImplementedError("Intent ... is not supported")
ActionDispatcher_run_raises(action) == action.intent \notin ActionDispatcher_handlers

\* a datetime written to a row by setattr: the column keeps its wall-clock
\* reading (there is no _ensure_utc on this path)
Column(value) == IF value = None THEN None ELSE Some(value[1].wall)

\* handle_update_event, lines 155-161 and 167-168: the updates of the payload
\* applied to the row
updated_event(row, payload) ==
    LET with_start == IF "start" \in DOMAIN payload
                      THEN [row EXCEPT !.start_dt = Column(_parse_iso(payload["start"]))]
                      ELSE row
        with_end == IF "end" \in DOMAIN payload
                    THEN [with_start EXCEPT !.end_dt = Column(_parse_iso(payload["end"]))]
                    ELSE with_start
    IN IF "title" \in DOMAIN payload
       THEN [with_end EXCEPT !.title = payload["title"]]
       ELSE with_end

\* ActionDispatcher.handle_update_event: updated = False for an unknown id;
\* otherwise the row is updated and committed, and the call of
\* self.scheduler.cancel_event_reminders raises AttributeError
ActionDispatcher_handle_update_event(rows, pending, clock, payload) ==
    LET event_id == GetOr(payload, "event_id", 0)
        at == RowIndex(rows, event_id)
    IN IF at = None
       THEN [events |-> rows, jobs |-> pending,
             result |-> Result(event_id, FALSE, <<>>, FALSE)]
       ELSE [events |-> [rows EXCEPT ![at[1]] = updated_event(rows[at[1]], payload)],
             jobs |-> pending,
             result |-> Result(event_id, FALSE, <<>>,
                               "cancel_event_reminders" \notin ReminderScheduler_methods)]

\* handle_delete_event with the reminders cancelled whether or not a row was
\* deleted
handle_delete_event_cancel_first(rows, pending, payload) ==
    LET event_id == GetOr(payload, "event_id", 0)
        gone == delete_event(rows, event_id)
    IN [events |-> gone.rows, jobs |-> pending,
        result |-> Result(event_id, FALSE, <<>>,
                          "cancel_event_reminders" \notin ReminderScheduler_methods)]

\* ActionDispatcher.handle_delete_event: deleted = False for an unknown id;
\* otherwise the row is deleted and committed, and the call of
\* self.scheduler.cancel_event_reminders raises AttributeError
ActionDispatcher_handle_delete_event(rows, pending, payload) ==
    LET event_id == GetOr(payload, "event_id", 0)
        gone == delete_event(rows, event_id)
    IN IF ~gone.deleted
       THEN [events |-> rows, jobs |-> pending,
             result |-> Result(event_id, FALSE, <<>>, FALSE)]
       ELSE [events |-> gone.rows, jobs |-> pending,
             result |-> Result(event_id, FALSE, <<>>,
                               "cancel_event_reminders" \notin ReminderScheduler_methods)]

\* TaskStatus(value): ValueError for a value that is no status
TaskStatus == {"todo", "in_progress", "done"}

\* handle_update_task, lines 298-303: the fields of the payload applied to the row
updated_task(row, payload) ==
    LET with_title == IF "title" \in DOMAIN payload
                      THEN [row EXCEPT !.title = payload["title"]]
                      ELSE row
        with_due == IF "due" \in DOMAIN payload
                    THEN [with_title EXCEPT !.due_dt = Column(_parse_iso(payload["due"]))]
                    ELSE with_title
    IN IF "status" \in DOMAIN payload
       THEN [with_due EXCEPT !.status = payload["status"]]
       ELSE with_due

\* ActionDispatcher.handle_update_task: updated = False for an unknown id; a
\* status that is no TaskStatus raises before the commit
ActionDispatcher_handle_update_task(rows, payload) ==
    LET task_id == GetOr(payload, "task_id", 0)
        at == RowIndex(rows, task_id)
    IN IF at = None
       THEN [tasks |-> rows, result |-> Result(task_id, FALSE, <<>>, FALSE)]
       ELSE IF "status" \in DOMAIN payload /\ payload["status"] \notin TaskStatus
       THEN [tasks |-> rows, result |-> Result(task_id, FALSE, <<>>, TRUE)]
       ELSE [tasks |-> [rows EXCEPT ![at[1]] = updated_task(rows[at[1]], payload)],
             result |-> [Result(task_id, FALSE, <<>>, FALSE) EXCEPT !.updated = TRUE]]

\* ActionDispatcher.handle_schedule_reminder: one job, at remind_at (the
\* current instant when absent), for an event with id -1 and offset 0
ActionDispatcher_handle_schedule_reminder(pending, clock, payload) ==
    LET remind_at == _parse_iso(Get(payload, "remind_at"))
        event == [id |-> -1,
                  start_dt |-> Some(Instant(Or(remind_at, Some(_utcnow(clock)))[1]))]
        scheduled == schedule_event_reminders(pending, clock, event, ListPolicy(<<0>>))
    IN [jobs |-> scheduled.jobs, result |-> Result(-1, FALSE, scheduled.job_ids, FALSE)]

-----------------------------------------------------------------------------
(* Update, delete and complete requests *)

\* the target of a request: no identifier (the handler's default 0), 0, the
\* identifier of every row and one that no row has
TargetPayloads(key, rows) == {EmptyDict} \cup {key :> id : id \in 0..(MaxId(rows) + 1)}
\* what an update_event request changes
EventUpdates ==
    {EmptyDict, "title" :> <<"c">>, "start" :> IsoText(18900, Some(10800)),
     "end" :> IsoText(10800, Some(0))}
\* what an update_task request changes; "later" is no TaskStatus
TaskUpdates ==
    {EmptyDict, "title" :> <<"c">>, "due" :> IsoText(18900, Some(10800)),
     "status" :> "done", "status" :> "later"}

UpdateEvent ==
    /\ steps < MaxSteps
    /\ \E target \in TargetPayloads("event_id", events) : \E updates \in EventUpdates :
         LET payload == target @@ updates
             r == ActionDispatcher_handle_update_event(events, jobs, now, payload)
         IN /\ events' = r.events
            /\ jobs' = r.jobs
            /\ last' = Called("dispatcher", "update_event", payload, r.result)
    /\ steps' = steps + 1
    /\ UNCHANGED <<tasks, now, others>>

DeleteEvent ==
    /\ steps < MaxSteps
    /\ \E payload \in TargetPayloads("event_id", events) :
         LET r == ActionDispatcher_handle_delete_event(events, jobs, payload) IN
         /\ events' = r.events
         /\ jobs' = r.jobs
         /\ last' = Called("dispatcher", "delete_event", payload, r.result)
    /\ steps' = steps + 1
    /\ UNCHANGED <<tasks, now, others>>

UpdateTask ==
    /\ steps < MaxSteps
    /\ \E target \in TargetPayloads("task_id", tasks) : \E updates \in TaskUpdates :
         LET payload == target @@ updates
             r == ActionDispatcher_handle_update_task(tasks, payload)
         IN /\ tasks' = r.tasks
            /\ last' = Called("dispatcher", "update_task", payload, r.result)
    /\ steps' = steps + 1
    /\ UNCHANGED <<events, jobs, now, others>>

\* complete_task, also for identifiers that no task has
CompleteTarget ==
    /\ steps < MaxSteps
    /\ \E payload \in TargetPayloads("task_id", tasks) :
         LET r == ActionDispatcher_handle_complete_task(tasks, payload) IN
         /\ tasks' = r.tasks
         /\ last' = Called("dispatcher", "complete_task", payload, r.result)
    /\ steps' = steps + 1
    /\ UNCHANGED <<events, jobs, now, others>>

NextManage ==
    \/ AddEvent \/ UpdateEvent \/ DeleteEvent
    \/ AddTask \/ UpdateTask \/ CompleteTarget
    \/ Tick

SpecManage == Init /\ [][NextManage]_vars

-----------------------------------------------------------------------------
(* Events with an end and a reminder policy; free-standing reminders *)

\* a start two days and two hours after the epoch: every default reminder of
\* such an event lies ahead
FarStart == IsoText(180000, Some(0))
\* 02:00Z, 05:15+03:00 (02:15Z) and the far start
PlannedStarts == {IsoText(7200, Some(0)), IsoText(18900, Some(10800)), FarStart}
\* no policy (the configured default), offsets of two hours and half an hour,
\* and a policy that names no offsets
PolicyShapes ==
    {EmptyDict,
     "remind_policy" :> DictPolicy(("minutes_before" :> <<120, 30>>) @@ ("voice" :> TRUE)),
     "remind_policy" :> DictPolicy("voice" :> TRUE)}
\* no end, an end ten minutes after 02:00Z and one half an hour after it
EndShapes ==
    {EmptyDict, "end" :> IsoText(7800, Some(0)), "end_time" :> IsoText(9000, Some(0))}

\* create requests as the classifier builds them (title, start, remind_policy)
PolicyPayloads ==
    {("title" :> <<"a", "b">>) @@ ("start" :> s) @@ p :
        s \in PlannedStarts, p \in PolicyShapes}
\* create requests with an end
EndPayloads ==
    {("title" :> <<"c">>) @@ ("start" :> s) @@ e : s \in PlannedStarts, e \in EndShapes}
\* the instants a reminder is asked for: none, 00:15Z and 02:00Z
RemindAtValues == {None, IsoText(900, Some(0)), IsoText(7200, Some(0))}

PlanEvent ==
    /\ steps < MaxSteps
    /\ \E payload \in PolicyPayloads \cup EndPayloads :
         LET r == ActionDispatcher_handle_add_event(events, jobs, now, payload) IN
         /\ events' = r.events
         /\ jobs' = r.jobs
         /\ last' = Called("dispatcher", "add_event", payload, r.result)
    /\ steps' = steps + 1
    /\ UNCHANGED <<tasks, now, others>>

ServicePlanEvent ==
    /\ steps < MaxSteps
    /\ \E payload \in PolicyPayloads \cup {p \in EndPayloads : DOMAIN p = {"title", "start"}} :
         LET r == AssistantService_handle_add_event(events, svc_jobs, now, payload) IN
         /\ events' = r.events
         /\ svc_jobs' = r.jobs
         /\ last' = Called("service", "add_event", payload, r.result)
    /\ steps' = steps + 1
    /\ UNCHANGED <<tasks, jobs, now, procs, call, result>>

ScheduleReminder ==
    /\ steps < MaxSteps
    /\ \E remind_at \in RemindAtValues :
         LET payload == Entry("remind_at", remind_at)
             r == ActionDispatcher_handle_schedule_reminder(jobs, now, payload)
         IN /\ jobs' = r.jobs
            /\ last' = Called("dispatcher", "schedule_reminder", payload, r.result)
    /\ steps' = steps + 1
    /\ UNCHANGED <<events, tasks, now, others>>

\* time passes; both schedulers run the jobs that fall due and drop them
TickAll ==
    /\ steps < MaxSteps
    /\ now' = now + ClockStep
    /\ jobs' = {j \in jobs : j.run_at > now'}
    /\ svc_jobs' = {j \in svc_jobs : j.run_at > now'}
    /\ steps' = steps + 1
    /\ UNCHANGED <<events, tasks, last, procs, call, result>>

NextReminders == PlanEvent \/ ServicePlanEvent \/ ScheduleReminder \/ TickAll

SpecReminders == Init /\ [][NextReminders]_vars

-----------------------------------------------------------------------------
(* Create requests in the shapes the remote classifier sends *)

\* the title under its canonical key and under the aliases
TitleShapes ==
    {EmptyDict, "title" :> <<"a", "b">>, "event" :> <<"a", "b">>,
     "name" :> <<" ", "A", "B", " ">>}
\* the start under its canonical key and under the aliases: 02:00Z three
\* times, one of them written as 05:00+03:00, and a request that carries two
\* of the keys
StartShapes ==
    {EmptyDict,
     "start" :> IsoText(7200, Some(0)),
     "date_time" :> IsoText(7200, Some(0)),
     "start_dt" :> IsoText(18000, Some(10800)),
     "datetime" :> IsoText(7200, Some(0)),
     ("start" :> IsoText(10800, None)) @@ ("datetime" :> IsoText(7200, Some(0)))}
ShapedPayloads == {t @@ s : t \in TitleShapes, s \in StartShapes}

SubmitEvent ==
    /\ steps < MaxSteps
    /\ \E payload \in ShapedPayloads :
         LET r == ActionDispatcher_handle_add_event(events, jobs, now, payload) IN
         /\ events' = r.events
         /\ jobs' = r.jobs
         /\ last' = Called("dispatcher", "add_event", payload, r.result)
    /\ steps' = steps + 1
    /\ UNCHANGED <<tasks, now, others>>

NextShapes == SubmitEvent \/ Tick

SpecShapes == Init /\ [][NextShapes]_vars

\* the text as parse_datetime reads it, and the explicit time it finds there
Normalised == _normalise_text(call.text)
TimeMatch == _TIME_PATTERN_search(Normalised)
\* the words of the time found, lower-cased
MatchedWords ==
    Split(Lower(Slice(Normalised, TimeMatch[1].start, TimeMatch[1].end)))
\* the H of a time written "saat H" or "H da/de/te"; None for a time written
\* HH:MM and for a text without a time
MatchedHour ==
    IF TimeMatch = None THEN None
    ELSE IF MatchedWords[1] = <<"s", "a", "a", "t">>
         THEN Some(ToInt(SubSeq(MatchedWords[2], 1, DigitRun(MatchedWords[2], 1))))
         ELSE IF Len(MatchedWords) = 2 /\ MatchedWords[2] \in {<<"d", "a">>, <<"d", "e">>, <<"t", "e">>}
              THEN Some(ToInt(MatchedWords[1]))
              ELSE None
\* the words in front of the time, lower-cased
WordsBefore ==
    IF TimeMatch = None THEN <<>>
    ELSE Split(Lower(Upto(Normalised, TimeMatch[1].start)))
\* an evening word somewhere in front of the time
HintPrecedes == \E i \in DOMAIN WordsBefore : WordsBefore[i] \in _PERIOD_HINTS
\* an evening word among the three words right in front of the time
HintNear ==
    \E i \in DOMAIN WordsBefore :
        i + 3 > Len(WordsBefore) /\ WordsBefore[i] \in _PERIOD_HINTS
\* parse_datetime returned an instant
Succeeded == Done /\ result[1] # None
Moment == result[1][1]

\* C11 as stated: an evening word anywhere in front of a matched hour h
\* below 12 makes the returned hour h + 12, which is within 0..23.
C11_AsClaimed ==
    (Succeeded /\ MatchedHour # None /\ MatchedHour[1] < 12 /\ HintPrecedes) =>
        /\ Moment.hour = MatchedHour[1] + 12
        /\ Moment.hour \in 0..23

\* C11: when an evening word (akşam, aksam, akşamüstü, aksamustu) is one of
\* the three words right in front of a time written "saat H" or
\* "H da/de/te" with H below 12, the returned hour is H + 12, within 0..23.
C11_EveningHintAddsTwelve ==
    (Succeeded /\ MatchedHour # None /\ MatchedHour[1] < 12 /\ HintNear) =>
        /\ Moment.hour = MatchedHour[1] + 12
        /\ Moment.hour \in 0..23

\* C11 witness: an evening word, another word, then an hour below 12
C11_Witness ==
    /\ Succeeded
    /\ MatchedHour # None /\ MatchedHour[1] < 12
    /\ HintNear
    /\ Len(WordsBefore) > 1
    /\ Moment.hour = MatchedHour[1] + 12

\* the value came from search_dates, and the fragment search_dates matched
FromSearch == call.lib.parse_at = 0
SearchedText == Fragment(call.lib, CandidatesOf(call.text)[call.lib.search_at])
\* the base resolution: the date the library resolved, or the reference's
\* date for a searched fragment that names no date
BaseDate ==
    IF FromSearch /\ ~_match_contains_explicit_date(SearchedText)
    THEN call.reference
    ELSE call.lib.date
\* the N of the first day-ordinal suffix of the normalised text
DayOrdinal == _DAY_SUFFIX_PATTERN_search(Normalised)
\* N is a day of the base resolution's month
FormsDate(value, day) == day \in 1..DaysInMonth(value.year, value.month)

\* C12: when the normalised text has a day-ordinal suffix N, the returned
\* day of the month is N and the month and year are those of the base
\* resolution; when N is no day of that month the base day is kept.
C12_DayOrdinalOverridesDay ==
    (Succeeded /\ DayOrdinal # None) =>
        /\ Moment.year = BaseDate.year
        /\ Moment.month = BaseDate.month
        /\ Moment.day = IF FormsDate(BaseDate, DayOrdinal[1])
                        THEN DayOrdinal[1] ELSE BaseDate.day

\* C12 witness: "31'si" resolved in October gives the 31st
C12_Witness ==
    /\ Succeeded
    /\ DayOrdinal = Some(31)
    /\ BaseDate.month = 10 /\ BaseDate.day # 31
    /\ Moment.day = 31 /\ Moment.month = 10

\* the text the date was read from: the candidate dateparser.parse resolved,
\* or the fragment search_dates matched
MatchedText ==
    IF FromSearch THEN SearchedText
    ELSE CandidatesOf(call.text)[call.lib.parse_at]
SameDate(a, b) == a.year = b.year /\ a.month = b.month /\ a.day = b.day

HourOfText ==
    IF MatchedHour = None \/ MatchedHour[1] > 23 THEN None
    ELSE IF HintNear /\ MatchedHour[1] < 12 THEN Some(MatchedHour[1] + 12)
    ELSE MatchedHour
\* the time of day the date parse resolved
ResolvedTime == Resolved(call.lib, MatchedText)
\* the hour returned when no default hour is involved
HourWithoutDefault ==
    IF HourOfText # None THEN HourOfText[1] ELSE ResolvedTime.hour

\* C14: a default_hour given by the caller is the returned hour, with
\* minute 0, when the text has no explicit time pattern; when it has one,
\* the returned hour is the one the text or the date parse gives, whatever
\* the default hour is.
C14_DefaultHourOnlyWithoutTime ==
    (Succeeded /\ call.default_hour # None) =>
        /\ TimeMatch = None =>
              Moment.hour = call.default_hour[1] /\ Moment.minute = 0
        /\ TimeMatch # None => Moment.hour = HourWithoutDefault

\* C14 witness: a text without a time, resolved to another hour than the
\* default, returned at the default hour
C14_Witness ==
    /\ Succeeded
    /\ call.default_hour # None
    /\ TimeMatch = None
    /\ ResolvedTime.hour # call.default_hour[1]
    /\ Moment.hour = call.default_hour[1] /\ Moment.minute = 0

\* the returned time of day is hour:00:00.000000
OnTheHour(value, hour) ==
    /\ value.hour = hour /\ value.minute = 0
    /\ value.second = 0 /\ value.microsecond = 0

\* C15 as stated: a time written "saat H" or "H da/de/te" with H within
\* 0..23 is returned as H:00:00.000000, or (H + 12):00:00.000000 for an H
\* below 12 with an evening word anywhere in front of it, whatever the date
\* parse resolved and whatever default_hour is; an H above 23 is never the
\* returned hour.
C15_AsClaimed ==
    (Succeeded /\ MatchedHour # None) =>
        IF MatchedHour[1] <= 23
        THEN OnTheHour(Moment, IF HintPrecedes /\ MatchedHour[1] < 12
                               THEN MatchedHour[1] + 12 ELSE MatchedHour[1])
        ELSE Moment.hour # MatchedHour[1]

\* C15: a time written "saat H" or "H da/de/te" with H within 0..23 is
\* returned as H:00:00.000000, or (H + 12):00:00.000000 for an H below 12
\* with an evening word among the three words right in front of it,
\* whatever the date parse resolved and whatever default_hour is; an H
\* above 23 is never the returned hour.
C15_HourFormsSetTheHour ==
    (Succeeded /\ MatchedHour # None) =>
        IF MatchedHour[1] <= 23
        THEN OnTheHour(Moment, HourOfText[1])
        ELSE Moment.hour # MatchedHour[1]

\* C15 witness: "H da" with a default hour and a date parse that resolved
\* another time of day
C15_Witness ==
    /\ Succeeded
    /\ MatchedHour # None /\ MatchedHour[1] <= 23
    /\ call.default_hour # None /\ call.default_hour[1] # MatchedHour[1]
    /\ ResolvedTime.hour # MatchedHour[1] /\ ResolvedTime.second # 0
    /\ OnTheHour(Moment, MatchedHour[1])

-----------------------------------------------------------------------------
(* What the claims say about the normaliser *)

\* a string over the characters of the calls
IsText(value) ==
    /\ DOMAIN value = 1..Len(value)
    /\ \A i \in DOMAIN value : value[i] \in NormaliseChars

\* C16: _normalise_text returns a string for every string (the call is
\* never stuck and never fails), and normalising the value it returned
\* returns that value unchanged.
C16_NormaliseIsTotalAndIdempotent ==
    /\ result = None => ENABLED NormaliseText
    /\ Done => \A i \in DOMAIN result[1] : IsText(result[1][i])
    /\ (Done /\ Len(result[1]) = 2) => result[1][2] = result[1][1]

\* C16 witness: a text with an apostrophe and a run of whitespace,
\* changed by the first pass and left alone by the second
C16_Witness ==
    /\ Done /\ Len(result[1]) = 2
    /\ "'" \in Range(call.text)
    /\ \E i \in 1..(Len(call.text) - 1) : IsSpace(call.text[i]) /\ IsSpace(call.text[i + 1])
    /\ result[1][1] # call.text
    /\ result[1][1] # <<>>
    /\ result[1][2] = result[1][1]

-----------------------------------------------------------------------------
(* What the claims say about the remote classifier adapter *)

\* the completion call returned a response
Responded == ~call.remote.transport_error
\* the body is a JSON object
IsObject ==
    /\ call.remote.content # None
    /\ call.remote.content[1].valid
    /\ call.remote.content[1].value.type = "dict"
ReplyFields == call.remote.content[1].value.fields
\* a non-blank intent
NamesIntent ==
    /\ IsObject
    /\ "intent" \in DOMAIN ReplyFields
    /\ ReplyFields["intent"].type = "str"
    /\ ~IsBlank(ReplyFields["intent"].text)
\* a payload field that is no mapping
PayloadNotMapping ==
    /\ IsObject
    /\ "payload" \in DOMAIN ReplyFields
    /\ ReplyFields["payload"].type # "dict"

\* C17: for a response whose body is empty, is not valid JSON, has a
\* missing or blank intent or has a payload field that is not a mapping,
\* handle_with_llm fails and produces no Action; it returns an Action only
\* for a response with a non-blank intent whose payload is a mapping (or is
\* left out).
C17_MalformedReplyIsRejected ==
    (Done /\ call.entry = "handle_with_llm" /\ ~IsBlank(call.text) /\ Responded) =>
        /\ (~NamesIntent \/ PayloadNotMapping) =>
              result[1].raised /\ result[1].action = None
        /\ result[1].action # None => NamesIntent /\ ~PayloadNotMapping

-----------------------------------------------------------------------------
(* What the claims say about the payload builders *)

\* the rule classifier was asked and the first category the text satisfies
\* is one whose Action a payload builder makes
UsesBuilder ==
    /\ Done
    /\ result[1].consulted # <<>>
    /\ result[1].consulted[Len(result[1].consulted)] = "rules"
    /\ Satisfied # {}
    /\ FirstCategory \in {"event", "reminder", "add", "task"}
\* the default hour the builder hands to the extractor
BuilderHour ==
    CASE FirstCategory = "event" -> event_keyword_hour(Lower(RulesText))[1]
      [] FirstCategory = "reminder" -> 9
      [] FirstCategory = "add" -> 18
      [] FirstCategory = "task" -> 17
\* what the extractor returns to the builder
Extraction ==
    parse_datetime(RulesText, call.reference, Some(BuilderHour), 0, call.lib)
\* the temporal field of an intent
TemporalField(intent) ==
    CASE intent = "add_event" -> "start"
      [] intent = "add_task" -> "due"
      [] intent = "schedule_reminder" -> "remind_at"
\* the local reading of a UTC reading, three hours later
LocalOfUtc(value) ==
    IF value.hour + UtcOffsetHours < 24
    THEN [value EXCEPT !.hour = value.hour + UtcOffsetHours]
    ELSE [NextDay(value) EXCEPT !.hour = value.hour + UtcOffsetHours - 24]

\* C19: a payload builder returns an Action whether or not the extraction
\* succeeds.  Without an extracted instant the payload has no start and no
\* timezone (add_event), no due (add_task), no remind_at
\* (schedule_reminder); with one, the field is the ISO text of the
\* extracted instant in UTC.
C19_BuildersOmitAbsentTime ==
    UsesBuilder =>
        /\ result[1].action # None
        /\ TheAction.intent \in {"add_event", "add_task", "schedule_reminder"}
        /\ IF Extraction = None
           THEN /\ TemporalField(TheAction.intent) \notin DOMAIN TheAction.payload
                /\ "timezone" \notin DOMAIN TheAction.payload
           ELSE /\ TemporalField(TheAction.intent) \in DOMAIN TheAction.payload
                /\ TheAction.payload[TemporalField(TheAction.intent)].offset = "+00:00"
                /\ LocalOfUtc(TheAction.payload[TemporalField(TheAction.intent)].iso)
                       = Extraction[1]

\* C19 witness: a task whose due, 00:00 local time, is 21:00 UTC of the day
\* before
C19_Witness ==
    /\ UsesBuilder
    /\ Extraction # None
    /\ TheAction.intent = "add_task"
    /\ Extraction[1].hour = 0
    /\ TheAction.payload["due"].iso.hour = 21
    /\ TheAction.payload["due"].iso.day = Extraction[1].day - 1

-----------------------------------------------------------------------------
(* What the claims say about requests without a start or a due *)

\* the row of a table with the given id has the given value in a field
StoredWith(rows, id, field, value) ==
    \E i \in DOMAIN rows : rows[i].id = id /\ rows[i][field] = value

\* C20: through the dispatcher and through the service, a create-event
\* request without a start is not rejected with an error and the event it
\* creates is stored with the current instant as its start; a create-task
\* request without a due creates a task stored without a due date.
C20_MissingStartMeansNow ==
    [][ last'.n = last.n + 1 =>
          /\ (last'.op = "add_event" /\ "start" \notin DOMAIN last'.payload) =>
                /\ ~last'.result.raised
                /\ ~last'.result.duplicate =>
                      StoredWith(events', last'.result.id, "start_dt", Some(now))
          /\ (last'.op = "add_task" /\ "due" \notin DOMAIN last'.payload) =>
                /\ ~last'.result.raised
                /\ ~last'.result.duplicate =>
                      StoredWith(tasks', last'.result.id, "due_dt", None) ]_vars

-----------------------------------------------------------------------------
(* C21: the target identifier of update, delete and complete commands *)

\* the payload key that carries the target of an intent
TargetKey(intent) ==
    IF intent \in {"update_event", "delete_event"} THEN "event_id" ELSE "task_id"
\* the first run of digits of the text: the digits from the first digit up to
\* the character before the first non-digit after it
FirstDigitRun(text) ==
    LET start == Least({i \in DOMAIN text : IsDigit(text[i])})
        end == CHOOSE j \in start..Len(text) :
                    /\ \A k \in start..j : IsDigit(text[k])
                    /\ j = Len(text) \/ ~IsDigit(text[j + 1])
    IN SubSeq(text, start, end)
\* its value as a decimal number; 0 for a text without a digit
NumberNamed(text) ==
    IF \A i \in DOMAIN text : ~IsDigit(text[i]) THEN 0 ELSE ToInt(FirstDigitRun(text))
TargetIntents ==
    {"update_event", "update_task", "delete_event", "delete_task", "complete_task"}

\* C21: for update, delete and complete intents the rule classifier sets the
\* target identifier of the payload to the value of the first run of digits
\* in the text, and to 0 when the text has no digit.
C21_TargetIsFirstNumber ==
    (ByRules /\ TheAction.intent \in TargetIntents) =>
        LET key == TargetKey(TheAction.intent) IN
        /\ key \in DOMAIN TheAction.payload
        /\ TheAction.payload[key] = NumberNamed(RulesText)

\* a delete command with two numbers was given the first of them
C21_Witness ==
    /\ ByRules
    /\ TheAction.intent = "delete_task"
    /\ TheAction.payload["task_id"] = 12
    /\ Contains(RulesText, <<"7">>)

-----------------------------------------------------------------------------
(* C22: update, delete and complete requests for a record that is not stored *)

\* the identifier a request names (0 when it names none)
TargetOf(c) ==
    IF c.op \in {"update_event", "delete_event"}
    THEN GetOr(c.payload, "event_id", 0)
    ELSE GetOr(c.payload, "task_id", 0)
\* the step is a call of one of the four handlers for an identifier that no
\* stored record of its table has
UnknownTarget ==
    /\ last'.n = last.n + 1
    /\ last'.entry = "dispatcher"
    /\ \/ /\ last'.op \in {"update_event", "delete_event"}
          /\ \A i \in DOMAIN events : events[i].id # TargetOf(last')
       \/ /\ last'.op \in {"update_task", "complete_task"}
          /\ \A i \in DOMAIN tasks : tasks[i].id # TargetOf(last')
\* the call returned and reported that nothing was updated, deleted or completed
Rejected(res) ==
    /\ ~res.raised
    /\ ~res.updated
    /\ ~res.deleted
    /\ ~res.completed

\* C22: update_event, update_task, delete_event and complete_task called with
\* an identifier that no stored record has (the default 0 included) report
\* updated / deleted / completed = false and leave every stored record and
\* every scheduled reminder job as it was.
C22_UnknownTargetIsRejected ==
    [][ UnknownTarget
        => /\ Rejected(last'.result)
           /\ events' = events
           /\ tasks' = tasks
           /\ jobs' = jobs ]_vars

\* an update of an event that is not stored was rejected while another event
\* was stored with its reminders
C22_Witness ==
    /\ last.op = "update_event"
    /\ TargetOf(last) > 0
    /\ \A i \in DOMAIN events : events[i].id # TargetOf(last)
    /\ ~last.result.updated
    /\ events # <<>>
    /\ jobs # {}

-----------------------------------------------------------------------------
(* C23: deleting an event that has reminders *)

\* the pending reminder jobs of an event
JobsOf(pending, event_id) == {j \in pending : j.id.event_id = event_id}

\* C23: after handle_delete_event is called for a stored event that has
\* scheduled reminder jobs, the call returns deleted = true, the event is no
\* longer in the store and no reminder job of that event remains scheduled.
C23_DeleteClearsReminders ==
    [][ ( /\ last'.n = last.n + 1
          /\ last'.entry = "dispatcher"
          /\ last'.op = "delete_event"
          /\ \E i \in DOMAIN events : events[i].id = TargetOf(last')
          /\ JobsOf(jobs, TargetOf(last')) # {} )
        => /\ ~last'.result.raised
           /\ last'.result.deleted
           /\ \A i \in DOMAIN events' : events'[i].id # TargetOf(last')
           /\ JobsOf(jobs', TargetOf(last')) = {} ]_vars

-----------------------------------------------------------------------------
(* C24: the reminders of a new event *)

\* the step is a create-event call, through either entry point, that stored a
\* new event
CreatesEvent ==
    /\ last'.n = last.n + 1
    /\ last'.op = "add_event"
    /\ ~last'.result.duplicate
    /\ ~last'.result.raised
\* the stored row of the event the call created
NewEvent == events'[CHOOSE i \in DOMAIN events' : events'[i].id = last'.result.id]
\* the minutes-before offsets of the request's reminder policy: those it
\* names, otherwise the configured default
OffsetsOf(payload) ==
    IF /\ "remind_policy" \in DOMAIN payload
       /\ "minutes_before" \in DOMAIN payload["remind_policy"][1].dict
    THEN payload["remind_policy"][1].dict["minutes_before"]
    ELSE <<1440, 60, 10>>
\* the instant of the reminder `minutes` before the start
ReminderInstant(start, minutes) == start - minutes * 60
\* the offsets whose reminder lies strictly after the current time
AheadOffsets(start, offsets) ==
    {m \in Range(offsets) : ReminderInstant(start, m) > now}
\* the scheduler the entry point uses, before and after the step
Pending(entry) == IF entry = "service" THEN svc_jobs ELSE jobs
PendingAfter(entry) == IF entry = "service" THEN svc_jobs' ELSE jobs'
\* the jobs the step scheduled or rescheduled
Scheduled(entry) == PendingAfter(entry) \ Pending(entry)

\* C24: creating a new event schedules exactly one reminder job for every
\* minutes-before offset of its policy whose reminder instant lies strictly
\* after the current time (three for the default policy when all three lie
\* ahead), and no job is ever scheduled for an instant at or before the
\* current time.
C24_OneJobPerFutureOffset ==
    [][ /\ CreatesEvent =>
            LET entry == last'.entry
                offsets == OffsetsOf(last'.payload)
                start == NewEvent.start_dt[1]
                ahead == AheadOffsets(start, offsets)
                expected == {[id |-> JobId(NewEvent.id, m),
                              run_at |-> ReminderInstant(start, m)] : m \in ahead}
            IN /\ Scheduled(entry) = expected
               /\ \A m \in ahead :
                    Cardinality({j \in PendingAfter(entry) :
                                    j.id = JobId(NewEvent.id, m)}) = 1
               /\ Range(last'.result.jobs) = {JobId(NewEvent.id, m) : m \in ahead}
               /\ Len(last'.result.jobs) = Cardinality(ahead)
               /\ Pending(entry) \ PendingAfter(entry) = {}
               /\ (offsets = <<1440, 60, 10>> /\ Cardinality(ahead) = 3)
                    => Len(last'.result.jobs) = 3
        /\ \A j \in (jobs' \ jobs) \cup (svc_jobs' \ svc_jobs) : j.run_at > now ]_vars

\* an event with the default policy and a start two days ahead got its three
\* reminders
C24_Witness ==
    /\ last.op = "add_event"
    /\ ~last.result.duplicate
    /\ "remind_policy" \notin DOMAIN last.payload
    /\ Len(last.result.jobs) = 3
    /\ Cardinality({j \in Pending(last.entry) : j.id.event_id = last.result.id}) = 3

-----------------------------------------------------------------------------
(* C25: the conflict warnings of a new event *)

\* the end of the new event's interval: its end, or one hour after its start
IntervalEnd(event) ==
    IF event.end_dt = None THEN event.start_dt[1] + 3600 ELSE event.end_dt[1]
\* the stored event overlaps the interval of the new one: it starts before the
\* new event ends and has not ended when the new event starts
Overlaps(stored, new) ==
    /\ stored.start_dt[1] < IntervalEnd(new)
    /\ stored.end_dt # None => stored.end_dt[1] > new.start_dt[1]
\* the stored events, other than the new one, that overlap it
Overlapping ==
    {i \in DOMAIN events' :
        events'[i].id # NewEvent.id /\ Overlaps(events'[i], NewEvent)}
\* the entries of the warnings list that name a title and a start
EntriesFor(warnings, title, start_dt) ==
    {k \in DOMAIN warnings :
        warnings[k].title = title /\ warnings[k].start_dt = start_dt}

\* C25: when an event is created, the returned warnings hold a conflict entry
\* for every other stored event whose interval overlaps the interval of the
\* new event (an absent end of the new event counting as start + 1 hour), and
\* no entry for the new event itself.
C25_WarningsNameEveryOverlap ==
    [][ CreatesEvent =>
            LET warnings == last'.result.warnings IN
            \A i \in DOMAIN events' :
                LET same == {j \in Overlapping :
                                /\ events'[j].title = events'[i].title
                                /\ events'[j].start_dt = events'[i].start_dt}
                    entries == EntriesFor(warnings, events'[i].title,
                                          events'[i].start_dt)
                IN /\ Cardinality(entries) >= Cardinality(same)
                   /\ events'[i].id = NewEvent.id
                        => Cardinality(entries) = Cardinality(same) ]_vars

\* an event with an end was created while two others were stored: one that
\* overlaps it and is named in the warnings, one that starts after it has ended
\* and is not
C25_Witness ==
    /\ last.op = "add_event"
    /\ ~last.result.duplicate
    /\ Len(events) = 3
    /\ events[3].id = last.result.id
    /\ events[3].end_dt # None
    /\ events[3].end_dt[1] > events[3].start_dt[1]
    /\ Len(last.result.warnings) = 1
    /\ \E i \in 1..2 : events[i].start_dt[1] >= events[3].end_dt[1]

-----------------------------------------------------------------------------
(* C26: the alias keys of a create-event request *)

\* the value a request carries for the start, and for the title, under the
\* canonical key or an alias
CarriedStart(payload) ==
    IF "start" \in DOMAIN payload THEN payload["start"]
    ELSE IF "date_time" \in DOMAIN payload THEN payload["date_time"]
    ELSE IF "start_dt" \in DOMAIN payload THEN payload["start_dt"]
    ELSE IF "datetime" \in DOMAIN payload THEN payload["datetime"]
    ELSE None
CarriedTitle(payload) ==
    IF "title" \in DOMAIN payload THEN payload["title"]
    ELSE IF "event" \in DOMAIN payload THEN payload["event"]
    ELSE IF "name" \in DOMAIN payload THEN payload["name"]
    ELSE None
\* the same request written with the canonical keys only
Canonical(payload) ==
    Entry("title", CarriedTitle(payload)) @@ Entry("start", CarriedStart(payload))
\* the event a request describes: its normalized title and its instant
Described(payload) ==
    [title |-> RequestKey(Canonical(payload), DefaultEventTitle),
     start |-> RequestInstant(Canonical(payload), "start")]
\* the step submits, in another payload shape, the event the call before it
\* submitted
SameEventReshaped ==
    /\ DispatcherCall("add_event")
    /\ last.entry = "dispatcher"
    /\ last.op = "add_event"
    /\ last'.payload # last.payload
    /\ Described(last'.payload) = Described(last.payload)
\* the call is answered as the same call with canonical keys would be
AnsweredAsCanonical ==
    LET r == ActionDispatcher_handle_add_event(events, jobs, now,
                                               Canonical(last'.payload))
    IN /\ events' = r.events
       /\ jobs' = r.jobs
       /\ last'.result = r.result

\* C26: handle_add_event treats the alias keys date_time / start_dt / datetime
\* and event / name exactly like start and title, so the same event submitted
\* a second time in another payload shape is detected as a duplicate of the
\* first submission and no second record is created.
C26_AliasesAreDeduplicated ==
    [][ /\ DispatcherCall("add_event") => AnsweredAsCanonical
        /\ SameEventReshaped
             => /\ last'.result.duplicate
                /\ NothingCreated ]_vars

-----------------------------------------------------------------------------
(* C27: every intent of the rule classifier has a handler *)

\* C27: every intent handle_with_rules can return, delete_task included, has
\* a handler in ActionDispatcher, so running a rule-classified action never
\* ends in the "intent not supported" error.
C27_RuleIntentsAreHandled ==
    ByRules => ~ActionDispatcher_run_raises(TheAction)

-----------------------------------------------------------------------------
(* C28: no two stored events with the same title within one hour *)

TitleKey(row) == Casefold(Strip(row.title))
Apart(a, b) == IF a >= b THEN a - b ELSE b - a
\* two stored events with equal trimmed case-folded titles whose starts are
\* less than one hour apart
Twins(rows) ==
    {pair \in (DOMAIN rows) \X (DOMAIN rows) :
        /\ pair[1] < pair[2]
        /\ TitleKey(rows[pair[1]]) = TitleKey(rows[pair[2]])
        /\ Apart(rows[pair[1]].start_dt[1], rows[pair[2]].start_dt[1]) < HourSeconds}

\* C28: after any sequence of sequential handle_add_event calls, with or
\* without a start in the payload, the store never holds two events whose
\* trimmed case-folded titles are equal and whose starts are less than one
\* hour apart.
C28_NoTwinEvents ==
    Twins(events) = {}

-----------------------------------------------------------------------------
(* C29: completed tasks are outside the task duplicate guard *)

\* the completed tasks a create-task request matches
DoneTaskMatches(rows, payload) ==
    TaskMatches(rows, payload) \ OpenTaskMatches(rows, payload)
\* the step stored one new, open task and answered with its id
NewTask ==
    /\ Len(tasks') = Len(tasks) + 1
    /\ SubSeq(tasks', 1, Len(tasks)) = tasks
    /\ tasks'[Len(tasks')].id = last'.result.id
    /\ tasks'[Len(tasks')].status = "todo"
    /\ \A i \in DOMAIN tasks : tasks[i].id # last'.result.id

\* C29: the task duplicate guard compares a candidate only against tasks that
\* are not completed: once a task has been completed through complete_task,
\* adding a task with the same title and the same due time never returns the
\* completed task's identifier; it creates a new record with duplicate = false
\* (and returns an open task only when an open task matches as well).
C29_CompletedTasksAreNotDuplicates ==
    [][ (DispatcherCall("add_task") /\ DoneTaskMatches(tasks, last'.payload) # {})
          => /\ \A i \in DoneTaskMatches(tasks, last'.payload) :
                   last'.result.id # tasks[i].id
             /\ IF OpenTaskMatches(tasks, last'.payload) = {}
                THEN ~last'.result.duplicate /\ NewTask
                ELSE /\ last'.result.duplicate
                     /\ tasks' = tasks
                     /\ \E i \in OpenTaskMatches(tasks, last'.payload) :
                            last'.result.id = tasks[i].id ]_vars

\* a task was added again after its completion and stored as a second record
C29_Witness ==
    /\ last.entry = "dispatcher"
    /\ last.op = "add_task"
    /\ ~last.result.duplicate
    /\ \E i, j \in DOMAIN tasks :
         /\ tasks[i].status = "done"
         /\ tasks[j].status = "todo"
         /\ tasks[j].id = last.result.id
         /\ tasks[i].id < tasks[j].id
         /\ i \in TaskMatches(tasks, last.payload)
         /\ tasks[i].title = tasks[j].title
         /\ tasks[i].due_dt = tasks[j].due_dt

-----------------------------------------------------------------------------
(* C30: the single job of handle_schedule_reminder *)

\* the pending jobs of reminders made by handle_schedule_reminder
ManualJobs(pending) == {j \in pending : j.id.event_id = -1}
\* the step is a schedule_reminder call that scheduled a job
ReminderScheduled ==
    /\ DispatcherCall("schedule_reminder")
    /\ last'.result.jobs # <<>>

\* C30: all reminders made by handle_schedule_reminder share one job id
\* (event id -1, offset 0), so at most one such job is pending at any time,
\* and a later schedule_reminder call that schedules a job replaces the
\* pending job of an earlier call instead of adding a second one.
C30_OneManualReminder ==
    [][ /\ Cardinality(ManualJobs(jobs')) <= 1
        /\ \A j \in ManualJobs(jobs') : j.id = [event_id |-> -1, minutes |-> 0]
        /\ ReminderScheduled
             => /\ last'.result.jobs = <<[event_id |-> -1, minutes |-> 0]>>
                /\ ManualJobs(jobs') =
                     {[id |-> [event_id |-> -1, minutes |-> 0],
                       run_at |-> RequestInstant(last'.payload, "remind_at")[1]]}
                /\ jobs' \ ManualJobs(jobs') = jobs \ ManualJobs(jobs) ]_vars

\* the third call in a row scheduled a reminder for 00:15, and the one pending
\* reminder job is the one for 00:15
C30_Witness ==
    /\ last.n = 3
    /\ steps = 3
    /\ now = 0
    /\ events = <<>>
    /\ last.op = "schedule_reminder"
    /\ last.result.jobs # <<>>
    /\ jobs = {[id |-> [event_id |-> -1, minutes |-> 0], run_at |-> 900]}
=============================================================================
